---- MODULE Spec2Model ----
(***************************************************************************)
(* Model of the story-build MCP tools that build license terms and mint    *)
(* license tokens: story_create_license_terms, story_register_ip and       *)
(* story_mint_license, behind the MCP tool wrapper of createMcpServer.     *)
(*                                                                         *)
(* Strings are sequences of one-character strings, JavaScript numbers are  *)
(* decimal records (sign, significant digits, decimal exponent) and        *)
(* bigints are sequences of decimal digits, so that Number.toString,       *)
(* parseFloat, parseInt and parseEther are computed as the program         *)
(* computes them and 10^18 base units fit.                                 *)
(***************************************************************************)
EXTENDS Integers, Sequences, FiniteSets, TLC

\* ------------------------------------------------------------------------
\* Bounds of the model
\* ------------------------------------------------------------------------

\* story_mint_license: amounts 0..MaxAmount are requested
MaxAmount == 3
\* story_mint_license: per-token fees 0..MaxFee base units (and 1000) are read
MaxFee == 4
\* descriptions are made of at most MaxPhrases phrases
MaxPhrases == 2
\* story_get_transaction_history: the chain read has blocks 0..MaxBlock at most
MaxBlock == 2

\* ------------------------------------------------------------------------
\* Characters and strings
\* ------------------------------------------------------------------------

DigitChars == <<"0", "1", "2", "3", "4", "5", "6", "7", "8", "9">>

IsDigit(c) == \E i \in 1..10 : DigitChars[i] = c

\* the value of a digit character
DigitVal(c) == (CHOOSE i \in 1..10 : DigitChars[i] = c) - 1

DigitChar(d) == DigitChars[d + 1]

IsSpace(c) == c = " "

UpperChars == <<"A", "B", "C", "D", "E", "F", "G", "H", "I", "J", "K", "L", "M",
                "N", "O", "P", "Q", "R", "S", "T", "U", "V", "W", "X", "Y", "Z">>
LowerChars == <<"a", "b", "c", "d", "e", "f", "g", "h", "i", "j", "k", "l", "m",
                "n", "o", "p", "q", "r", "s", "t", "u", "v", "w", "x", "y", "z">>

\* String.prototype.toLowerCase
toLowerCase(s) ==
    [i \in 1..Len(s) |->
        IF \E j \in 1..26 : UpperChars[j] = s[i]
        THEN LowerChars[CHOOSE j \in 1..26 : UpperChars[j] = s[i]]
        ELSE s[i]]

\* whether sub occurs in s at position i
MatchAt(s, sub, i) ==
    /\ i >= 1
    /\ i + Len(sub) - 1 <= Len(s)
    /\ \A j \in 1..Len(sub) : s[i + j - 1] = sub[j]

\* String.prototype.includes
includes(s, sub) == \E i \in 1..(Len(s) + 1) : MatchAt(s, sub, i)

\* the end of the maximal run of digits of s that starts at i (i - 1 if none)
RECURSIVE DigitRunEnd(_, _)
DigitRunEnd(s, i) ==
    IF i <= Len(s) /\ IsDigit(s[i]) THEN DigitRunEnd(s, i + 1) ELSE i - 1

RECURSIVE SpaceRunEnd(_, _)
SpaceRunEnd(s, i) ==
    IF i <= Len(s) /\ IsSpace(s[i]) THEN SpaceRunEnd(s, i + 1) ELSE i - 1

RECURSIVE Zeros(_)
Zeros(n) == IF n <= 0 THEN <<>> ELSE <<0>> \o Zeros(n - 1)

RECURSIVE StripLeadingZeros(_)
StripLeadingZeros(ds) ==
    IF Len(ds) > 0 /\ ds[1] = 0 THEN StripLeadingZeros(Tail(ds)) ELSE ds

RECURSIVE StripTrailingZeros(_)
StripTrailingZeros(ds) ==
    IF Len(ds) > 0 /\ ds[Len(ds)] = 0
    THEN StripTrailingZeros(SubSeq(ds, 1, Len(ds) - 1))
    ELSE ds

\* the digits of a string of digit characters, and back
DigitsOf(s) == [i \in 1..Len(s) |-> DigitVal(s[i])]
CharsOf(ds) == [i \in 1..Len(ds) |-> DigitChar(ds[i])]

\* the decimal digits of a natural number
RECURSIVE NatDigits(_)
NatDigits(n) ==
    IF n < 10 THEN <<n>> ELSE NatDigits(n \div 10) \o <<n % 10>>

\* the natural number of a sequence of decimal digits (small values only)
RECURSIVE DigitsNat(_)
DigitsNat(ds) ==
    IF Len(ds) = 0 THEN 0
    ELSE 10 * DigitsNat(SubSeq(ds, 1, Len(ds) - 1)) + ds[Len(ds)]

\* ------------------------------------------------------------------------
\* JavaScript numbers: the value of [neg, digits, exp] is
\* (-1)^neg * 0.d1 d2 ... dk * 10^exp, digits without leading or trailing
\* zero; zero has no digits.  A decimal of at most 15 significant digits is
\* the shortest decimal of the double nearest to it, so these are the
\* digits Number.prototype.toString prints.
\* ------------------------------------------------------------------------

Num(neg, digits, exp) == [neg |-> neg, digits |-> digits, exp |-> exp]

NumZero == Num(FALSE, <<>>, 0)

IsZero(x) == x.digits = <<>>

\* the number of a decimal with integer digits int and fraction digits frac
RECURSIVE Normalize(_, _)
Normalize(ds, exp) ==
    IF StripTrailingZeros(ds) = <<>> THEN NumZero
    ELSE IF ds[1] = 0 THEN Normalize(Tail(ds), exp - 1)
    ELSE Num(FALSE, StripTrailingZeros(ds), exp)

\* the number of a small natural number
NatNum(n) == Normalize(NatDigits(n), Len(NatDigits(n)))

\* x is an integer
IsInteger(x) == Len(x.digits) <= x.exp \/ IsZero(x)

\* the count of digits x has after the decimal point
FractionDigits(x) ==
    IF IsZero(x) \/ Len(x.digits) <= x.exp THEN 0 ELSE Len(x.digits) - x.exp

\* Number.prototype.toString (ECMA-262 Number::toString, radix 10):
\* k digits, x = 0.digits * 10^n; plain notation for -6 < n <= 21,
\* exponent notation otherwise
NumberToString(x) ==
    LET k == Len(x.digits)
        n == x.exp
        e == n - 1
        sign == IF x.neg THEN <<"-">> ELSE <<>>
        cs == CharsOf(x.digits)
        expChars == <<"e">> \o (IF e >= 0 THEN <<"+">> ELSE <<"-">>)
                        \o CharsOf(NatDigits(IF e >= 0 THEN e ELSE -e))
    IN  IF IsZero(x) THEN <<"0">>
        ELSE sign \o
            (IF k <= n /\ n <= 21 THEN cs \o CharsOf(Zeros(n - k))
             ELSE IF 0 < n /\ n <= 21
                  THEN SubSeq(cs, 1, n) \o <<".">> \o SubSeq(cs, n + 1, k)
             ELSE IF -6 < n /\ n <= 0
                  THEN <<"0", ".">> \o CharsOf(Zeros(-n)) \o cs
             ELSE IF k = 1 THEN cs \o expChars
             ELSE <<cs[1], ".">> \o SubSeq(cs, 2, k) \o expChars)

\* parseFloat of a string matched by \d+(?:\.\d+)?
parseFloat(s) ==
    LET dot == IF \E i \in 1..Len(s) : s[i] = "."
               THEN CHOOSE i \in 1..Len(s) : s[i] = "."
               ELSE Len(s) + 1
        int == DigitsOf(SubSeq(s, 1, dot - 1))
        frac == DigitsOf(SubSeq(s, dot + 1, Len(s)))
    IN  Normalize(int \o frac, Len(int))

\* parseInt of a string matched by \d+
parseInt(s) == DigitsNat(DigitsOf(s))

\* ------------------------------------------------------------------------
\* bigints: sequences of decimal digits without leading zero, zero is <<0>>
\* ------------------------------------------------------------------------

\* BigInt(string of digits)
BigOfDigits(ds) ==
    IF StripLeadingZeros(ds) = <<>> THEN <<0>> ELSE StripLeadingZeros(ds)

\* BigInt(n) of a small natural number
BigOfNat(n) == NatDigits(n)

\* a + b, digit by digit from the right with carry
RECURSIVE AddDigits(_, _, _)
AddDigits(a, b, carry) ==
    IF Len(a) = 0 /\ Len(b) = 0
    THEN (IF carry = 0 THEN <<>> ELSE <<carry>>)
    ELSE LET da == IF Len(a) = 0 THEN 0 ELSE a[Len(a)]
             db == IF Len(b) = 0 THEN 0 ELSE b[Len(b)]
             ra == IF Len(a) = 0 THEN <<>> ELSE SubSeq(a, 1, Len(a) - 1)
             rb == IF Len(b) = 0 THEN <<>> ELSE SubSeq(b, 1, Len(b) - 1)
             t == da + db + carry
         IN  AddDigits(ra, rb, t \div 10) \o <<t % 10>>

BigAdd(a, b) == BigOfDigits(AddDigits(a, b, 0))

\* a * n for a small natural number n
RECURSIVE MulDigits(_, _, _)
MulDigits(a, n, carry) ==
    IF Len(a) = 0
    THEN (IF carry = 0 THEN <<>> ELSE NatDigits(carry))
    ELSE LET t == a[Len(a)] * n + carry
         IN  MulDigits(SubSeq(a, 1, Len(a) - 1), n, t \div 10) \o <<t % 10>>

BigMul(a, n) == BigOfDigits(MulDigits(a, n, 0))

\* a / n truncated, for a small positive n: long division from the left
RECURSIVE DivDigits(_, _, _)
DivDigits(a, n, rem) ==
    IF Len(a) = 0 THEN <<>>
    ELSE LET t == rem * 10 + a[1]
         IN  <<t \div n>> \o DivDigits(Tail(a), n, t % n)

BigDiv(a, n) == BigOfDigits(DivDigits(a, n, 0))

\* a < b
RECURSIVE LessDigits(_, _)
LessDigits(a, b) ==
    IF Len(a) = 0 THEN FALSE
    ELSE IF a[1] # b[1] THEN a[1] < b[1]
    ELSE LessDigits(Tail(a), Tail(b))

BigLess(a, b) ==
    \/ Len(a) < Len(b)
    \/ Len(a) = Len(b) /\ LessDigits(a, b)

BigZero == <<0>>

\* ------------------------------------------------------------------------
\* viem parseEther(value) = parseUnits(value, 18)
\* ------------------------------------------------------------------------

\* what a call that throws yields in place of a bigint
Thrown == <<>>

\* /^(-?)([0-9]*)\.?([0-9]*)$/
IsDecimalString(s) ==
    LET body == IF Len(s) > 0 /\ s[1] = "-" THEN Tail(s) ELSE s
    IN  /\ \A i \in 1..Len(body) : IsDigit(body[i]) \/ body[i] = "."
        /\ Cardinality({i \in 1..Len(body) : body[i] = "."}) <= 1

\* parseUnits: the integer part followed by the fraction padded (or rounded)
\* to decimals digits, read as one integer; a string that is no plain
\* decimal throws
parseUnits(s, decimals) ==
    IF ~IsDecimalString(s) THEN Thrown
    ELSE
    LET negative == Len(s) > 0 /\ s[1] = "-"
        body == IF negative THEN Tail(s) ELSE s
        hasDot == \E i \in 1..Len(body) : body[i] = "."
        dot == IF hasDot THEN CHOOSE i \in 1..Len(body) : body[i] = "."
               ELSE Len(body) + 1
        integer == DigitsOf(SubSeq(body, 1, dot - 1))
        fraction0 == IF hasDot THEN DigitsOf(SubSeq(body, dot + 1, Len(body)))
                     ELSE <<0>>
        fraction == StripTrailingZeros(fraction0)
        left == SubSeq(fraction, 1, decimals - 1)
        unit == fraction[decimals]
        right == SubSeq(fraction, decimals + 1, Len(fraction))
        rounded == IF right[1] >= 5 THEN unit + 1 ELSE unit
        bumped == BigAdd(BigOfDigits(left), <<1>>) \o <<0>>
        roundedFraction ==
            IF rounded > 9
            THEN Zeros(Len(left) + 1 - Len(bumped)) \o bumped
            ELSE left \o <<rounded>>
        carried == Len(roundedFraction) > decimals
        magnitude ==
            IF Len(fraction) > decimals
            THEN (IF carried
                  THEN BigAdd(BigOfDigits(integer), <<1>>)
                           \o SubSeq(roundedFraction, 2, decimals + 1)
                  ELSE integer \o SubSeq(roundedFraction, 1, decimals))
            ELSE integer \o fraction \o Zeros(decimals - Len(fraction))
    IN  (IF negative /\ BigOfDigits(magnitude) # <<0>> THEN <<"-">> ELSE <<>>)
            \o BigOfDigits(magnitude)

\* the decimals of ether
EtherDecimals == 18

parseEther(s) == parseUnits(s, EtherDecimals)

\* ------------------------------------------------------------------------
\* Optional values: None is undefined, Some(v) a present value; a call that
\* throws yields None where it returns Some(v) otherwise
\* ------------------------------------------------------------------------

None == <<>>
Some(v) == <<v>>
IsNone(o) == Len(o) = 0
IsSome(o) == Len(o) = 1
Get(o) == o[1]
OrElse(o, d) == IF IsSome(o) THEN o[1] ELSE d

\* ------------------------------------------------------------------------
\* License terms (utils/license-terms.ts)
\* ------------------------------------------------------------------------

RoyaltyPolicyLAP == "0xBe54FB168b3c982b7AaE60dB6CF75Bd8447b390E"
zeroAddress == "0x0000000000000000000000000000000000000000"
WIP_TOKEN_ADDRESS == "0x1514000000000000000000000000000000000000"

CommercialRemixUri == "off-chain-terms/CommercialRemix.json"
NCSRUri == "off-chain-terms/NCSR.json"

\* parseEther(fee.toString()): the base units, Thrown when parseEther throws
ScaleFee(fee) == parseEther(NumberToString(fee))

\* a terms record whose minting fee parseEther threw on was never built: the
\* exception leaves the builder
Built(terms) == terms.defaultMintingFee # Thrown

\* createCommercialRemixTerms({commercialRevShare, defaultMintingFee})
createCommercialRemixTerms(terms) ==
    [transferable |-> TRUE,
     royaltyPolicy |-> RoyaltyPolicyLAP,
     defaultMintingFee |-> ScaleFee(terms.defaultMintingFee),
     expiration |-> BigOfNat(0),
     commercialUse |-> TRUE,
     commercialAttribution |-> TRUE,
     commercializerChecker |-> zeroAddress,
     commercializerCheckerData |-> "0x",
     commercialRevShare |-> terms.commercialRevShare,
     commercialRevCeiling |-> BigOfNat(0),
     derivativesAllowed |-> TRUE,
     derivativesAttribution |-> TRUE,
     derivativesApproval |-> FALSE,
     derivativesReciprocal |-> TRUE,
     derivativeRevCeiling |-> BigOfNat(0),
     currency |-> WIP_TOKEN_ADDRESS,
     uri |-> CommercialRemixUri]

\* createNonCommercialTerms()
createNonCommercialTerms ==
    [transferable |-> TRUE,
     royaltyPolicy |-> zeroAddress,
     defaultMintingFee |-> BigZero,
     expiration |-> BigZero,
     commercialUse |-> FALSE,
     commercialAttribution |-> FALSE,
     commercializerChecker |-> zeroAddress,
     commercializerCheckerData |-> "0x",
     commercialRevShare |-> 0,
     commercialRevCeiling |-> BigZero,
     derivativesAllowed |-> TRUE,
     derivativesAttribution |-> TRUE,
     derivativesApproval |-> FALSE,
     derivativesReciprocal |-> TRUE,
     derivativeRevCeiling |-> BigZero,
     currency |-> zeroAddress,
     uri |-> NCSRUri]

\* ------------------------------------------------------------------------
\* story_create_license_terms: the description's overrides
\* ------------------------------------------------------------------------

KwNoCommercial == <<"n", "o", " ", "c", "o", "m", "m", "e", "r", "c", "i", "a", "l">>
KwNonCommercial == <<"n", "o", "n", "-", "c", "o", "m", "m", "e", "r", "c", "i", "a", "l">>
KwNoDerivatives == <<"n", "o", " ", "d", "e", "r", "i", "v", "a", "t", "i", "v", "e", "s">>
KwNoRemixes == <<"n", "o", " ", "r", "e", "m", "i", "x", "e", "s">>
KwFree == <<"f", "r", "e", "e">>
KwNoFee == <<"n", "o", " ", "f", "e", "e">>
KwWip == <<"w", "i", "p">>
KwDollar == <<"d", "o", "l", "l", "a", "r">>
KwUsd == <<"u", "s", "d">>

\* /(\d+)%/ at position i: the digits captured, None when it does not match
PercentMatchAt(s, i) ==
    LET e == DigitRunEnd(s, i)
    IN  IF e >= i /\ e + 1 <= Len(s) /\ s[e + 1] = "%"
        THEN Some(SubSeq(s, i, e))
        ELSE None

\* desc.match(/(\d+)%/): the capture of the leftmost match from position i on
RECURSIVE PercentMatchFrom(_, _)
PercentMatchFrom(s, i) ==
    IF i > Len(s) THEN None
    ELSE IF IsSome(PercentMatchAt(s, i)) THEN PercentMatchAt(s, i)
    ELSE PercentMatchFrom(s, i + 1)

percentMatch(s) == PercentMatchFrom(s, 1)

\* (?:wip|dollars?|usd) at position i
UnitAt(s, i) ==
    MatchAt(s, KwWip, i) \/ MatchAt(s, KwDollar, i) \/ MatchAt(s, KwUsd, i)

\* /\$?(\d+(?:\.\d+)?)\s*(?:wip|dollars?|usd)/ at position i: the number
\* captured, None when it does not match
FeeMatchAt(s, i) ==
    LET p == IF i <= Len(s) /\ s[i] = "$" THEN i + 1 ELSE i
        e1 == DigitRunEnd(s, p)
        hasFraction == /\ e1 + 2 <= Len(s)
                       /\ s[e1 + 1] = "."
                       /\ IsDigit(s[e1 + 2])
        e2 == DigitRunEnd(s, e1 + 2)
    IN  IF e1 < p THEN None
        ELSE IF hasFraction /\ UnitAt(s, SpaceRunEnd(s, e2 + 1) + 1)
             THEN Some(SubSeq(s, p, e2))
        ELSE IF UnitAt(s, SpaceRunEnd(s, e1 + 1) + 1)
             THEN Some(SubSeq(s, p, e1))
        ELSE None

\* desc.match(...): the capture of the leftmost match from position i on
RECURSIVE FeeMatchFrom(_, _)
FeeMatchFrom(s, i) ==
    IF i > Len(s) THEN None
    ELSE IF IsSome(FeeMatchAt(s, i)) THEN FeeMatchAt(s, i)
    ELSE FeeMatchFrom(s, i + 1)

feeMatch(s) == FeeMatchFrom(s, 1)

\* what the tests of the handler find in the description: they read the
\* lower-cased description only, so they are the same whatever the input
NoMatches ==
    [noCommercial |-> FALSE, noDerivatives |-> FALSE, free |-> FALSE,
     percentMatch |-> None, feeMatch |-> None]

DescriptionMatches(description) ==
    IF IsNone(description) \/ Get(description) = <<>>
    THEN NoMatches
    ELSE LET desc == toLowerCase(Get(description))
         IN  [noCommercial |-> includes(desc, KwNoCommercial)
                                \/ includes(desc, KwNonCommercial),
              noDerivatives |-> includes(desc, KwNoDerivatives)
                                \/ includes(desc, KwNoRemixes),
              free |-> includes(desc, KwFree) \/ includes(desc, KwNoFee),
              percentMatch |-> percentMatch(desc),
              feeMatch |-> feeMatch(desc)]

\* the overrides in the order the handler applies them, each on the input
\* the one before left
OverrideCommercialUse(input, m) ==
    IF m.noCommercial THEN [input EXCEPT !.commercial_use = FALSE] ELSE input

OverrideDerivatives(input, m) ==
    IF m.noDerivatives THEN [input EXCEPT !.derivatives_allowed = FALSE] ELSE input

OverrideFree(input, m) ==
    IF m.free THEN [input EXCEPT !.minting_fee = NumZero] ELSE input

\* a variant of the percentage override that adds the percentage to the
\* share the input has (+=)
OverrideRevShareAdds(input, m) ==
    IF IsSome(m.percentMatch)
    THEN [input EXCEPT !.commercial_rev_share = @ + parseInt(Get(m.percentMatch))]
    ELSE input

OverrideRevShare(input, m) ==
    IF IsSome(m.percentMatch)
    THEN [input EXCEPT !.commercial_rev_share = parseInt(Get(m.percentMatch))]
    ELSE input

OverrideFee(input, m) ==
    IF IsSome(m.feeMatch)
    THEN [input EXCEPT !.minting_fee = parseFloat(Get(m.feeMatch))]
    ELSE input

\* if (input.description) { ... }: the input object after the overrides,
\* m being DescriptionMatches(input.description)
ApplyDescription(input, m) ==
    OverrideFee(
      OverrideRevShare(
        OverrideFree(
          OverrideDerivatives(
            OverrideCommercialUse(input, m), m), m), m), m)

\* ------------------------------------------------------------------------
\* story_create_license_terms: the terms of each license type
\* ------------------------------------------------------------------------

\* fee || 1
FeeOrDefault(fee) == IF IsZero(fee) THEN NatNum(1) ELSE fee

\* share || 5
RevShareOrDefault(share) == IF share = 0 THEN 5 ELSE share

CommercialRemixTerms(input) ==
    createCommercialRemixTerms(
        [defaultMintingFee |-> FeeOrDefault(input.minting_fee),
         commercialRevShare |-> RevShareOrDefault(input.commercial_rev_share)])

\* a variant of the commercial_use branch that takes the flags of the
\* derivatives from the input
CommercialUseTermsCallerFlags(input) ==
    [transferable |-> input.transferable,
     royaltyPolicy |-> IF input.commercial_rev_share > 0
                       THEN RoyaltyPolicyLAP ELSE zeroAddress,
     defaultMintingFee |-> ScaleFee(input.minting_fee),
     expiration |-> BigOfNat(input.expiration),
     commercialUse |-> TRUE,
     commercialAttribution |-> input.commercial_attribution,
     commercializerChecker |-> zeroAddress,
     commercializerCheckerData |-> "0x",
     commercialRevShare |-> input.commercial_rev_share,
     commercialRevCeiling |-> BigOfNat(input.commercial_rev_ceiling),
     derivativesAllowed |-> FALSE,
     derivativesAttribution |-> input.derivatives_attribution,
     derivativesApproval |-> input.derivatives_approval,
     derivativesReciprocal |-> input.derivatives_reciprocal,
     derivativeRevCeiling |-> BigOfNat(0),
     currency |-> WIP_TOKEN_ADDRESS,
     uri |-> OrElse(input.terms_uri, "")]

CommercialUseTerms(input) ==
    [transferable |-> input.transferable,
     royaltyPolicy |-> IF input.commercial_rev_share > 0
                       THEN RoyaltyPolicyLAP ELSE zeroAddress,
     defaultMintingFee |-> ScaleFee(input.minting_fee),
     expiration |-> BigOfNat(input.expiration),
     commercialUse |-> TRUE,
     commercialAttribution |-> input.commercial_attribution,
     commercializerChecker |-> zeroAddress,
     commercializerCheckerData |-> "0x",
     commercialRevShare |-> input.commercial_rev_share,
     commercialRevCeiling |-> BigOfNat(input.commercial_rev_ceiling),
     derivativesAllowed |-> FALSE,
     derivativesAttribution |-> FALSE,
     derivativesApproval |-> FALSE,
     derivativesReciprocal |-> FALSE,
     derivativeRevCeiling |-> BigOfNat(0),
     currency |-> WIP_TOKEN_ADDRESS,
     uri |-> OrElse(input.terms_uri, "")]

\* the custom terms of the input the overrides left
CustomTerms(input) ==
    [transferable |-> input.transferable,
     royaltyPolicy |-> IF input.commercial_use /\ input.commercial_rev_share > 0
                       THEN RoyaltyPolicyLAP ELSE zeroAddress,
     defaultMintingFee |-> ScaleFee(input.minting_fee),
     expiration |-> BigOfNat(input.expiration),
     commercialUse |-> input.commercial_use,
     commercialAttribution |-> input.commercial_attribution,
     commercializerChecker |-> zeroAddress,
     commercializerCheckerData |-> "0x",
     commercialRevShare |-> input.commercial_rev_share,
     commercialRevCeiling |-> BigOfNat(input.commercial_rev_ceiling),
     derivativesAllowed |-> input.derivatives_allowed,
     derivativesAttribution |-> input.derivatives_attribution,
     derivativesApproval |-> input.derivatives_approval,
     derivativesReciprocal |-> input.derivatives_reciprocal,
     derivativeRevCeiling |-> BigOfNat(0),
     currency |-> WIP_TOKEN_ADDRESS,
     uri |-> OrElse(input.terms_uri, "")]

\* the input object as the branch of the license type leaves it
InputAfterBuild(input, m) ==
    IF input.license_type \in {"commercial_remix", "non_commercial", "commercial_use"}
    THEN input
    ELSE ApplyDescription(input, m)

\* a variant of the branches in which non_commercial falls through to the
\* custom terms
BuildLicenseTermsNoNonCommercial(input, m) ==
    IF input.license_type = "commercial_remix" THEN CommercialRemixTerms(input)
    ELSE IF input.license_type = "commercial_use" THEN CommercialUseTerms(input)
    ELSE CustomTerms(ApplyDescription(input, m))

\* a variant of the branches in which commercial_use reads the description
\* as custom does
BuildLicenseTermsDescribedUse(input, m) ==
    IF input.license_type = "commercial_remix" THEN CommercialRemixTerms(input)
    ELSE IF input.license_type = "non_commercial" THEN createNonCommercialTerms
    ELSE IF input.license_type = "commercial_use"
         THEN CommercialUseTerms(ApplyDescription(input, m))
    ELSE CustomTerms(ApplyDescription(input, m))

\* the licenseTerms of the branch of the license type
BuildLicenseTerms(input, m) ==
    IF input.license_type = "commercial_remix" THEN CommercialRemixTerms(input)
    ELSE IF input.license_type = "non_commercial" THEN createNonCommercialTerms
    ELSE IF input.license_type = "commercial_use" THEN CommercialUseTerms(input)
    ELSE CustomTerms(ApplyDescription(input, m))

\* ------------------------------------------------------------------------
\* State
\* ------------------------------------------------------------------------

VARIABLES
    phase,          \* "idle": the server awaits a request; "done": it answered
    request,        \* the tool called and the arguments the client sent
    input,          \* the input object of the handler as the handler left it
    licenseTerms,   \* the license terms the handler built
    calls,          \* the external calls of the invocation, in order
    chain,          \* what the external calls of the invocation answered
    response        \* the response of the MCP tool wrapper

vars == <<phase, request, input, licenseTerms, calls, chain, response>>

Call(op, arg) == [op |-> op, arg |-> arg]

\* a variant of the wrapper without the catch: the exception leaves the
\* callback and there is no response
ErrorResponseEscapes(message) == <<>>

\* the handler threw: the wrapper answers isError with the message
ErrorResponse(message) == [isError |-> TRUE, error |-> message, result |-> None]

\* the handler returned: the wrapper answers with the serialised result
ResultResponse(result) == [isError |-> FALSE, error |-> "", result |-> Some(result)]

\* the arguments do not satisfy the tool's schema: the handler is not called
InvalidArguments == "Invalid arguments"

\* the MCP tool wrapper: the arguments are checked against the tool's schema
\* and, when valid, the handler runs on the parsed arguments; out is what
\* the handler does with them and answer what the chain answers it
Invoke(tool, params, valid, out, answer) ==
    /\ request' = [tool |-> tool, params |-> params]
    /\ IF valid
       THEN /\ answer.outcome # "unused"
            /\ chain' = Some(answer)
            /\ input' = Some(out.input)
            /\ licenseTerms' = out.licenseTerms
            /\ calls' = out.calls
            /\ response' = out.response
       ELSE /\ answer.outcome = "unused"
            /\ chain' = None
            /\ input' = None
            /\ licenseTerms' = None
            /\ calls' = <<>>
            /\ response' = ErrorResponse(InvalidArguments)

\* ------------------------------------------------------------------------
\* story_create_license_terms
\* ------------------------------------------------------------------------

LicenseTypes == {"custom", "commercial_remix", "non_commercial", "commercial_use"}

\* the schema: every argument present has its type and range
CreateSchemaValid(params) ==
    /\ IsSome(params.license_type) => Get(params.license_type) \in LicenseTypes
    /\ IsSome(params.minting_fee) =>
            ~Get(params.minting_fee).neg \/ IsZero(Get(params.minting_fee))
    /\ IsSome(params.commercial_rev_share) =>
            /\ Get(params.commercial_rev_share) >= 0
            /\ Get(params.commercial_rev_share) <= 100
    /\ IsSome(params.commercial_rev_ceiling) => Get(params.commercial_rev_ceiling) >= 0
    /\ IsSome(params.expiration) => Get(params.expiration) >= 0

\* the schema's defaults
CreateSchemaParse(params) ==
    [license_type |-> OrElse(params.license_type, "custom"),
     commercial_use |-> OrElse(params.commercial_use, TRUE),
     derivatives_allowed |-> OrElse(params.derivatives_allowed, TRUE),
     minting_fee |-> OrElse(params.minting_fee, NatNum(1)),
     commercial_rev_share |-> OrElse(params.commercial_rev_share, 0),
     commercial_rev_ceiling |-> OrElse(params.commercial_rev_ceiling, 5),
     commercial_attribution |-> OrElse(params.commercial_attribution, TRUE),
     derivatives_attribution |-> OrElse(params.derivatives_attribution, TRUE),
     derivatives_approval |-> OrElse(params.derivatives_approval, FALSE),
     derivatives_reciprocal |-> OrElse(params.derivatives_reciprocal, TRUE),
     transferable |-> OrElse(params.transferable, TRUE),
     expiration |-> OrElse(params.expiration, 0),
     terms_uri |-> params.terms_uri,
     description |-> params.description]

LicenseTermsId == "licenseTermsId"

\* `${n} WIP` and `${n}%` of the objects the handlers return
FeeText(fee) == NumberToString(fee) \o <<" ", "W", "I", "P">>
ShareText(share) == CharsOf(NatDigits(share)) \o <<"%">>

\* the object the handler returns: its status, license_terms and
\* terms_details without the expiry date and the fixed texts
CreateResult(in, terms) ==
    [status |-> "success",
     license_terms |-> [license_terms_id |-> LicenseTermsId,
                        type |-> in.license_type],
     terms_details |->
        [commercial_use |-> terms.commercialUse,
         derivatives_allowed |-> terms.derivativesAllowed,
         minting_fee |-> FeeText(in.minting_fee),
         commercial_rev_share |-> ShareText(terms.commercialRevShare),
         commercial_attribution |-> terms.commercialAttribution,
         derivatives_attribution |-> terms.derivativesAttribution,
         derivatives_approval |-> terms.derivativesApproval,
         derivatives_reciprocal |-> terms.derivativesReciprocal,
         transferable |-> terms.transferable]]

CreateFailed == "Failed to create license terms"

\* the steps of the handler around the terms it builds: connect,
\* registerPILTerms(terms), disconnect (finally); after is the input object
\* the building left
CreateSteps(in, after, terms, connectOk, registerOk) ==
    IF ~connectOk
    THEN [input |-> in, licenseTerms |-> None,
          calls |-> <<Call("connect", None), Call("disconnect", None)>>,
          response |-> ErrorResponse(CreateFailed)]
    ELSE IF ~Built(terms)
    THEN [input |-> after, licenseTerms |-> None,
          calls |-> <<Call("connect", None), Call("disconnect", None)>>,
          response |-> ErrorResponse(CreateFailed)]
    ELSE IF ~registerOk
    THEN [input |-> after, licenseTerms |-> Some(terms),
          calls |-> <<Call("connect", None),
                      Call("registerPILTerms", Some(terms)),
                      Call("disconnect", None)>>,
          response |-> ErrorResponse(CreateFailed)]
    ELSE [input |-> after, licenseTerms |-> Some(terms),
          calls |-> <<Call("connect", None),
                      Call("registerPILTerms", Some(terms)),
                      Call("disconnect", None)>>,
          response |-> ResultResponse(CreateResult(after, terms))]

\* the handler; m is DescriptionMatches(in.description), connectOk and
\* registerOk are what the chain answers
CreateHandler(in, m, connectOk, registerOk) ==
    CreateSteps(in, InputAfterBuild(in, m), BuildLicenseTerms(in, m),
                connectOk, registerOk)

\* the phrases descriptions are made of
Phrases ==
    << <<"n", "o", " ", "c", "o", "m", "m", "e", "r", "c", "i", "a", "l", ",", " ",
         "f", "r", "e", "e", " ", "m", "i", "n", "t", "i", "n", "g", ",", " ",
         "2", "0", "%", " ", "r", "e", "v", "e", "n", "u", "e", " ",
         "s", "h", "a", "r", "e">>,
       <<"R", "o", "y", "a", "l", "t", "y", "-", "F", "r", "e", "e", ",", " ",
         "1", "0", " ", "w", "i", "p">>,
       <<"$", "5", "0", "0", " ", "u", "p", "f", "r", "o", "n", "t", ",", " ",
         "1", "5", "0", "%", " ", "s", "h", "a", "r", "e">>,
       <<"N", "o", " ", "R", "e", "m", "i", "x", "e", "s", " ", "f", "o", "r", " ",
         "2", ".", "5", " ", "U", "S", "D">> >>

\* the phrases of q joined by ", "
RECURSIVE Join(_)
Join(q) ==
    IF Len(q) = 0 THEN <<>>
    ELSE IF Len(q) = 1 THEN Phrases[q[1]]
    ELSE Phrases[q[1]] \o <<",", " ">> \o Join(Tail(q))

\* the descriptions: at most MaxPhrases different phrases in any order
Descriptions ==
    {Join(q) : q \in UNION {{f \in [1..k -> 1..Len(Phrases)] :
                                \A i, j \in 1..k : i # j => f[i] # f[j]} :
                            k \in 0..MaxPhrases}}

\* the descriptions sent: none, or one of Descriptions
DescriptionArgs == {None} \cup {Some(d) : d \in Descriptions}

\* DescriptionMatches of each description sent
MatchTable == [description \in DescriptionArgs |-> DescriptionMatches(description)]

Flag(default) == {None, Some(~default)}

\* the minting fees sent: none, 0, 1.5, 0.0000001 and -1
FeeArgs ==
    {None, Some(NumZero), Some(Num(FALSE, <<1, 5>>, 1)),
     Some(Num(FALSE, <<1>>, -6)), Some(Num(TRUE, <<1>>, 1))}

\* the revenue shares sent
RevShareArgs == {None, Some(0), Some(20), Some(101)}

\* the arguments sent to story_create_license_terms
CreateParams(type, description, fee, share, cu, da, ca, dflags, advanced) ==
    [license_type |-> type,
     commercial_use |-> cu,
     derivatives_allowed |-> da,
     minting_fee |-> fee,
     commercial_rev_share |-> share,
     commercial_rev_ceiling |-> IF advanced THEN Some(0) ELSE None,
     commercial_attribution |-> ca,
     derivatives_attribution |-> dflags,
     derivatives_approval |-> IF IsSome(dflags) THEN Some(TRUE) ELSE None,
     derivatives_reciprocal |-> dflags,
     transferable |-> IF advanced THEN Some(FALSE) ELSE None,
     expiration |-> IF advanced THEN Some(1000) ELSE None,
     terms_uri |-> IF advanced THEN Some("https://terms") ELSE None,
     description |-> description]

CreateInvoke(params, m, outcome) ==
    Invoke("story_create_license_terms", params, CreateSchemaValid(params),
           CreateHandler(CreateSchemaParse(params), m,
                         outcome # "connect fails", outcome # "register fails"),
           [outcome |-> outcome])

CreateLicenseTermsTool ==
    /\ phase = "idle"
    /\ \E description \in DescriptionArgs,
          type \in {Some(t) : t \in LicenseTypes},
          fee \in FeeArgs,
          share \in RevShareArgs,
          cu \in Flag(TRUE), da \in Flag(TRUE), ca \in Flag(TRUE),
          dflags \in Flag(TRUE),
          advanced \in BOOLEAN,
          outcome \in {"unused", "ok", "connect fails", "register fails"} :
        CreateInvoke(
            CreateParams(type, description, fee, share, cu, da, ca, dflags, advanced),
            MatchTable[description], outcome)
    /\ phase' = "done"

\* ------------------------------------------------------------------------
\* story_register_ip
\* ------------------------------------------------------------------------

\* the schema: every argument present has its type and range
RegisterSchemaValid(params) ==
    /\ IsSome(params.minting_fee) =>
            ~Get(params.minting_fee).neg \/ IsZero(Get(params.minting_fee))
    /\ IsSome(params.commercial_rev_share) =>
            /\ Get(params.commercial_rev_share) >= 0
            /\ Get(params.commercial_rev_share) <= 100

\* the schema's defaults
RegisterSchemaParse(params) ==
    [content_url |-> params.content_url,
     title |-> params.title,
     description |-> params.description,
     commercial_use |-> OrElse(params.commercial_use, TRUE),
     derivatives_allowed |-> OrElse(params.derivatives_allowed, TRUE),
     commercial_rev_share |-> OrElse(params.commercial_rev_share, 5),
     minting_fee |-> OrElse(params.minting_fee, NatNum(1))]

\* validateUrl: new URL(url) does not throw
validateUrl(url) == url # "not a url"

\* what parseContentUrl extracts from the page
ParsedTitle == "parsed title"
ParsedDescription == "parsed description"

\* licenseTermsData.terms of the handler
RegisterTerms(in) ==
    createCommercialRemixTerms(
        [defaultMintingFee |-> in.minting_fee,
         commercialRevShare |-> in.commercial_rev_share])

\* the object the handler returns: its status and license_info
RegisterResult(in) ==
    [status |-> "success",
     license_info |->
        [attached |-> TRUE,
         commercial_use |-> in.commercial_use,
         derivatives_allowed |-> in.derivatives_allowed,
         commercial_rev_share |-> ShareText(in.commercial_rev_share),
         minting_fee |-> FeeText(in.minting_fee)]]

RegisterFailed == "Failed to register IP"

\* the handler threw after the calls made: disconnect (finally)
RegisterThrow(in, made, built) ==
    [input |-> in, licenseTerms |-> built,
     calls |-> made \o <<Call("disconnect", None)>>,
     response |-> ErrorResponse(RegisterFailed)]

\* the steps of the handler: connect, parse the content URL, upload the
\* metadata, build the terms, mintAndRegisterIpAssetWithPilTerms, disconnect
\* (finally); read are the calls up to the parsing, outcome the first
\* external call that fails, if any
RegisterSteps(in, terms, read, finalTitle, finalDescription, outcome) ==
    IF outcome = "connect fails"
    THEN RegisterThrow(in, <<Call("connect", None)>>, None)
    ELSE IF IsSome(in.content_url) /\ ~validateUrl(Get(in.content_url))
    THEN RegisterThrow(in, <<Call("connect", None)>>, None)
    ELSE IF IsSome(in.content_url) /\ outcome = "parse fails"
    THEN RegisterThrow(in, read, None)
    ELSE IF IsNone(finalTitle) \/ IsNone(finalDescription)
    THEN RegisterThrow(in, read, None)
    ELSE IF outcome = "upload fails"
    THEN RegisterThrow(in, read \o <<Call("generateIPMetadataFromContent", None)>>,
                       None)
    ELSE IF ~Built(terms)
    THEN RegisterThrow(in, read \o <<Call("generateIPMetadataFromContent", None)>>,
                       None)
    ELSE IF outcome = "register fails"
    THEN RegisterThrow(in,
            read \o <<Call("generateIPMetadataFromContent", None),
                      Call("mintAndRegisterIpAssetWithPilTerms", Some(terms))>>,
            Some(terms))
    ELSE [input |-> in, licenseTerms |-> Some(terms),
          calls |-> read \o <<Call("generateIPMetadataFromContent", None),
                              Call("mintAndRegisterIpAssetWithPilTerms", Some(terms)),
                              Call("disconnect", None)>>,
          response |-> ResultResponse(RegisterResult(in))]

\* the title and the description the handler ends with: the caller's, else
\* the parsed one
FinalText(given, url, parsed) ==
    IF IsSome(given) THEN given
    ELSE IF IsSome(url) THEN Some(parsed) ELSE None

RegisterHandler(in, outcome) ==
    RegisterSteps(in, RegisterTerms(in),
        IF IsSome(in.content_url)
        THEN <<Call("connect", None), Call("parseContentUrl", in.content_url)>>
        ELSE <<Call("connect", None)>>,
        FinalText(in.title, in.content_url, ParsedTitle),
        FinalText(in.description, in.content_url, ParsedDescription),
        outcome)

\* the revenue shares sent to story_register_ip
RegisterRevShareArgs == {None, Some(0), Some(20), Some(101)}

\* the arguments sent to story_register_ip (the image, media, creator and
\* attribute arguments only reach the metadata upload)
RegisterParams(url, title, description, fee, share, cu, da) ==
    [content_url |-> url,
     title |-> title,
     description |-> description,
     commercial_use |-> cu,
     derivatives_allowed |-> da,
     commercial_rev_share |-> share,
     minting_fee |-> fee]

RegisterInvoke(params, outcome) ==
    Invoke("story_register_ip", params, RegisterSchemaValid(params),
           RegisterHandler(RegisterSchemaParse(params), outcome),
           [outcome |-> outcome])

RegisterIPTool ==
    /\ phase = "idle"
    /\ \E url \in {None, Some("https://example.com/art.png"), Some("not a url")},
          title \in {None, Some("title")},
          description \in {None, Some("description")},
          fee \in FeeArgs,
          share \in RegisterRevShareArgs,
          cu \in Flag(TRUE), da \in Flag(TRUE),
          outcome \in {"unused", "ok", "connect fails", "parse fails",
                       "upload fails", "register fails"} :
        RegisterInvoke(RegisterParams(url, title, description, fee, share, cu, da),
                       outcome)
    /\ phase' = "done"

\* ------------------------------------------------------------------------
\* story_mint_license
\* ------------------------------------------------------------------------

\* a variant of the schema whose amount is min(0)
MintSchemaValidMinZero(params) ==
    /\ IsSome(params.amount) => Get(params.amount) >= 0
    /\ IsSome(params.max_minting_fee) =>
            ~Get(params.max_minting_fee).neg \/ IsZero(Get(params.max_minting_fee))
    /\ IsSome(params.max_revenue_share) =>
            /\ Get(params.max_revenue_share) >= 0
            /\ Get(params.max_revenue_share) <= 100

\* the schema: every argument present has its type and range (amounts are
\* integers here)
MintSchemaValid(params) ==
    /\ IsSome(params.amount) => Get(params.amount) >= 1
    /\ IsSome(params.max_minting_fee) =>
            ~Get(params.max_minting_fee).neg \/ IsZero(Get(params.max_minting_fee))
    /\ IsSome(params.max_revenue_share) =>
            /\ Get(params.max_revenue_share) >= 0
            /\ Get(params.max_revenue_share) <= 100

\* the schema's defaults
MintSchemaParse(params) ==
    [licensor_ip_id |-> params.licensor_ip_id,
     license_terms_id |-> params.license_terms_id,
     amount |-> OrElse(params.amount, 1),
     receiver |-> params.receiver,
     max_minting_fee |-> params.max_minting_fee,
     max_revenue_share |-> OrElse(params.max_revenue_share, 100)]

WalletAddress == "0xWallet"

\* mintingFeePerToken * BigInt(amount)
TotalMintingFee(mintingFeePerToken, amount) == BigMul(mintingFeePerToken, amount)

\* a variant of maxMintingFee without the tenth added to the total
MaxMintingFeeNoBuffer(in, totalMintingFee) ==
    IF IsSome(in.max_minting_fee)
    THEN parseEther(NumberToString(Get(in.max_minting_fee)))
    ELSE totalMintingFee

\* a variant of maxMintingFee that tests the caller's value for truthiness
\* (input.max_minting_fee ? ... : ...), so that 0 counts as absent
MaxMintingFeeWhenTruthy(in, totalMintingFee) ==
    IF IsSome(in.max_minting_fee) /\ ~IsZero(Get(in.max_minting_fee))
    THEN parseEther(NumberToString(Get(in.max_minting_fee)))
    ELSE BigAdd(totalMintingFee, BigDiv(totalMintingFee, 10))

\* the maxMintingFee of the handler: the caller's, scaled, when there is one
\* (Thrown when parseEther throws), else the total and a tenth of it
MaxMintingFee(in, totalMintingFee) ==
    IF IsSome(in.max_minting_fee)
    THEN parseEther(NumberToString(Get(in.max_minting_fee)))
    ELSE BigAdd(totalMintingFee, BigDiv(totalMintingFee, 10))

\* the request of mintLicenseTokens
MintRequest(in, maxMintingFee) ==
    [licenseTermsId |-> in.license_terms_id,
     licensorIpId |-> in.licensor_ip_id,
     amount |-> in.amount,
     receiver |-> OrElse(in.receiver, WalletAddress),
     maxMintingFee |-> maxMintingFee,
     maxRevenueShare |-> in.max_revenue_share]

\* the object the handler returns: its status and minting_info
MintResult(in) ==
    [status |-> "success",
     minting_info |-> [amount_minted |-> in.amount,
                       receiver |-> OrElse(in.receiver, WalletAddress),
                       licensor_ip_id |-> in.licensor_ip_id,
                       license_terms_id |-> in.license_terms_id]]

MintFailed == "Failed to mint license tokens"

\* the handler threw after the calls made: disconnect (finally)
MintThrow(in, made) ==
    [input |-> in, licenseTerms |-> None,
     calls |-> made \o <<Call("disconnect", None)>>,
     response |-> ErrorResponse(MintFailed)]

\* the calls up to the minting: connect, getLicensingConfig, getLicenseTerms
\* and, when the fee is positive, the read of the WIP balance, of which
\* whatever it finds or throws is caught and logged
MintReads(in, mintingFeePerToken) ==
    <<Call("connect", None),
      Call("getLicensingConfig", Some(in.license_terms_id)),
      Call("getLicenseTerms", Some(in.license_terms_id))>>
    \o (IF BigLess(BigZero, mintingFeePerToken)
        THEN <<Call("readContract", Some("balanceOf"))>>
        ELSE <<>>)

\* the steps of the handler: the reads, mintLicenseTokens, disconnect
\* (finally); outcome is the first external call that fails, if any
MintSteps(in, outcome, maxMintingFee, reads) ==
    IF outcome = "connect fails"
    THEN MintThrow(in, SubSeq(reads, 1, 1))
    ELSE IF outcome = "config fails"
    THEN MintThrow(in, SubSeq(reads, 1, 2))
    ELSE IF outcome = "terms fail"
    THEN MintThrow(in, SubSeq(reads, 1, 3))
    ELSE IF maxMintingFee = Thrown
    THEN MintThrow(in, reads)
    ELSE IF outcome = "mint fails"
    THEN MintThrow(in, reads \o <<Call("mintLicenseTokens",
                                       Some(MintRequest(in, maxMintingFee)))>>)
    ELSE [input |-> in, licenseTerms |-> None,
          calls |-> reads \o <<Call("mintLicenseTokens",
                                    Some(MintRequest(in, maxMintingFee))),
                               Call("disconnect", None)>>,
          response |-> ResultResponse(MintResult(in))]

\* the handler; answer is what the chain answers: the first call that
\* fails, the per-token fee and the balance
MintHandler(in, answer) ==
    MintSteps(in, answer.outcome,
              MaxMintingFee(in, TotalMintingFee(answer.mintingFee, in.amount)),
              MintReads(in, answer.mintingFee))

\* 2 WIP in base units
TwoEther == <<2>> \o Zeros(EtherDecimals)

\* the per-token fees getLicensingConfig answers
MintingFees == {BigOfNat(n) : n \in 0..MaxFee} \cup {BigOfNat(1000), TwoEther}

\* the balances the WIP contract answers: none (the read throws), nothing,
\* or 100 WIP
Balances == {None, Some(BigZero), Some(<<1>> \o Zeros(EtherDecimals + 2))}

\* the max_minting_fee sent: none, 0, 1.5, 0.0000001 and -1
MaxFeeArgs == FeeArgs

\* the arguments sent to story_mint_license
MintParams(amount, maxFee, receiver) ==
    [licensor_ip_id |-> "0xLicensorIp",
     license_terms_id |-> "5",
     amount |-> amount,
     receiver |-> receiver,
     max_minting_fee |-> maxFee,
     max_revenue_share |-> None]

MintInvoke(params, answer) ==
    Invoke("story_mint_license", params, MintSchemaValid(params),
           MintHandler(MintSchemaParse(params), answer), answer)

MintLicenseTool ==
    /\ phase = "idle"
    /\ \E amount \in {None} \cup {Some(a) : a \in 0..MaxAmount},
          maxFee \in MaxFeeArgs,
          receiver \in {None, Some("0xReceiver")},
          outcome \in {"unused", "ok", "connect fails", "config fails",
                       "terms fail", "mint fails"},
          mintingFee \in MintingFees,
          wipBalance \in Balances :
        /\ outcome = "unused" => mintingFee = BigZero /\ wipBalance = None
        /\ MintInvoke(MintParams(amount, maxFee, receiver),
                      [outcome |-> outcome, mintingFee |-> mintingFee,
                       wipBalance |-> wipBalance])
    /\ phase' = "done"

\* ------------------------------------------------------------------------
\* story_approve_token
\* ------------------------------------------------------------------------

\* [0-9a-fA-F]
HexChars ==
    DigitChars \cup {"a", "b", "c", "d", "e", "f", "A", "B", "C", "D", "E", "F"}

\* /^0x[0-9a-fA-F]{40}$/
AddressLength == 40
IsAddress(s) ==
    /\ Len(s) = 2 + AddressLength
    /\ s[1] = "0"
    /\ s[2] = "x"
    /\ \A i \in 3..Len(s) : s[i] \in HexChars

\* the schema: both addresses match the pattern, the amount is positive
ApproveSchemaValid(params) ==
    /\ IsAddress(params.token_address)
    /\ IsAddress(params.spender)
    /\ IsSome(params.amount) =>
            ~Get(params.amount).neg /\ ~IsZero(Get(params.amount))

\* the schema's default
ApproveSchemaParse(params) ==
    [token_address |-> params.token_address,
     spender |-> params.spender,
     amount |-> params.amount,
     unlimited |-> OrElse(params.unlimited, TRUE)]

\* maxUint256 = 2^256 - 1
maxUint256 ==
    <<
      1, 1, 5, 7, 9, 2, 0, 8, 9, 2, 3, 7, 3, 1, 6, 1, 9, 5, 4, 2, 3, 5, 7, 0, 9, 8,
      5, 0, 0, 8, 6, 8, 7, 9, 0, 7, 8, 5, 3, 2, 6, 9, 9, 8, 4, 6, 6, 5, 6, 4, 0, 5,
      6, 4, 0, 3, 9, 4, 5, 7, 5, 8, 4, 0, 0, 7, 9, 1, 3, 1, 2, 9, 6, 3, 9, 9, 3, 5
    >>

\* input.unlimited || !input.amount ? maxUint256 : parseEther(...)
ApproveAmount(in) ==
    IF in.unlimited \/ IsNone(in.amount) \/ IsZero(Get(in.amount))
    THEN maxUint256
    ELSE ScaleFee(Get(in.amount))

\* currentAllowance >= amount && amount !== maxUint256
ApprovalSufficient(currentAllowance, amount) ==
    ~BigLess(currentAllowance, amount) /\ amount # maxUint256

ApproveFailed == "Failed to approve tokens"

\* a variant of the throw in which nothing follows the catch
ApproveThrowNoFinally(in, made) ==
    [input |-> in, licenseTerms |-> None,
     calls |-> made,
     response |-> ErrorResponse(ApproveFailed)]

\* the handler threw after the calls made: disconnect (finally)
ApproveThrow(in, made) ==
    [input |-> in, licenseTerms |-> None,
     calls |-> made \o <<Call("disconnect", None)>>,
     response |-> ErrorResponse(ApproveFailed)]

\* connect, and the three reads Promise.all issues together
ApproveReads ==
    <<Call("connect", None),
      Call("readContract", Some("allowance")),
      Call("readContract", Some("symbol")),
      Call("readContract", Some("balanceOf"))>>

\* the object returned when the allowance suffices
ApproveNotNeeded ==
    [status |-> "success",
     approval_details |-> [approval_needed |-> FALSE]]

\* the object returned after the approval
ApproveResult(amount) ==
    [status |-> "success",
     approval_details |-> [is_unlimited |-> amount = maxUint256]]

\* the calls of the approval: simulateContract, writeContract,
\* waitForTransactionReceipt and the read of the new allowance
ApproveWrites(amount) ==
    <<Call("simulateContract", Some(amount)),
      Call("writeContract", Some(amount)),
      Call("waitForTransactionReceipt", None),
      Call("readContract", Some("allowance"))>>

\* the steps of the handler: connect, the reads, the early return when the
\* allowance suffices, the approval, disconnect (finally); outcome is the
\* first external call that fails, if any
ApproveSteps(in, outcome, currentAllowance, amount) ==
    IF outcome = "connect fails" \/ amount = Thrown
    THEN ApproveThrow(in, SubSeq(ApproveReads, 1, 1))
    ELSE IF outcome = "read fails"
    THEN ApproveThrow(in, ApproveReads)
    ELSE IF ApprovalSufficient(currentAllowance, amount)
    THEN [input |-> in, licenseTerms |-> None,
          calls |-> ApproveReads \o <<Call("disconnect", None)>>,
          response |-> ResultResponse(ApproveNotNeeded)]
    ELSE IF outcome = "simulate fails"
    THEN ApproveThrow(in, ApproveReads \o SubSeq(ApproveWrites(amount), 1, 1))
    ELSE IF outcome = "write fails"
    THEN ApproveThrow(in, ApproveReads \o SubSeq(ApproveWrites(amount), 1, 2))
    ELSE IF outcome = "wait fails"
    THEN ApproveThrow(in, ApproveReads \o SubSeq(ApproveWrites(amount), 1, 3))
    ELSE IF outcome = "allowance fails"
    THEN ApproveThrow(in, ApproveReads \o ApproveWrites(amount))
    ELSE [input |-> in, licenseTerms |-> None,
          calls |-> ApproveReads \o ApproveWrites(amount)
                        \o <<Call("disconnect", None)>>,
          response |-> ResultResponse(ApproveResult(amount))]

\* the handler; answer is what the chain answers: the first call that
\* fails and the allowance read
ApproveHandler(in, answer) ==
    ApproveSteps(in, answer.outcome, answer.currentAllowance, ApproveAmount(in))

\* the token addresses sent: the shortcut the description offers and an
\* address
WipShortcut == <<"W", "I", "P">>
TokenAddress == <<"0", "x">> \o [i \in 1..AddressLength |-> "a"]
SpenderAddress == <<"0", "x">> \o [i \in 1..AddressLength |-> "B"]

\* the amounts sent: none, 0, 1.5 and 0.0000001
ApproveAmountArgs ==
    {None, Some(NumZero), Some(Num(FALSE, <<1, 5>>, 1)), Some(Num(FALSE, <<1>>, -6))}

\* the allowances read
Allowances == {BigZero, TwoEther, maxUint256}

\* the arguments sent to story_approve_token
ApproveParams(token, amount, unlimited) ==
    [token_address |-> token,
     spender |-> SpenderAddress,
     amount |-> amount,
     unlimited |-> unlimited]

ApproveInvoke(params, answer) ==
    Invoke("story_approve_token", params, ApproveSchemaValid(params),
           ApproveHandler(ApproveSchemaParse(params), answer), answer)

ApproveTokenTool ==
    /\ phase = "idle"
    /\ \E token \in {WipShortcut, TokenAddress},
          amount \in ApproveAmountArgs,
          unlimited \in Flag(TRUE),
          outcome \in {"unused", "ok", "connect fails", "read fails",
                       "simulate fails", "write fails", "wait fails",
                       "allowance fails"},
          currentAllowance \in Allowances :
        /\ outcome = "unused" => currentAllowance = BigZero
        /\ ApproveInvoke(ApproveParams(token, amount, unlimited),
                         [outcome |-> outcome,
                          currentAllowance |-> currentAllowance])
    /\ phase' = "done"

\* ------------------------------------------------------------------------
\* story_send_eth
\* ------------------------------------------------------------------------

\* the schema: the destination matches the pattern, the amount is given and
\* positive
SendEthSchemaValid(params) ==
    /\ IsAddress(params.destination)
    /\ IsSome(params.amount)
    /\ ~Get(params.amount).neg
    /\ ~IsZero(Get(params.amount))

SendEthSchemaParse(params) ==
    [destination |-> params.destination, amount |-> Get(params.amount)]

\* the messages of the errors the handler throws
SendEthFailed == "Failed to send ETH"
SendEthInsufficient == "Failed to send ETH: Insufficient balance"
SendEthSimulationFailed == "Failed to send ETH: Transaction simulation failed"
SendEthInsufficientForGas ==
    "Failed to send ETH: Insufficient balance for transaction + gas"

\* the handler threw after the calls made: disconnect (finally)
SendEthThrow(in, made, message) ==
    [input |-> in, licenseTerms |-> None,
     calls |-> made \o <<Call("disconnect", None)>>,
     response |-> ErrorResponse(message)]

\* gasEstimate * gasPrice
GasCost(gasEstimate, gasPrice) == BigMul(gasEstimate, gasPrice)

\* a variant of the second balance check that leaves the gas out
CoversAmountOnly(balance, amount, gasCost) == ~BigLess(balance, amount)

\* the negation of balance < amount + gasCost
CoversAmountAndGas(balance, amount, gasCost) ==
    ~BigLess(balance, BigAdd(amount, gasCost))

\* the transaction handed to sendTransaction
EthTransaction(in, amount, gasEstimate) ==
    [to |-> in.destination, value |-> amount, gas |-> gasEstimate]

\* the object returned: its status and amount_wei
SendEthResult(amount) ==
    [status |-> "success",
     transaction_details |-> [amount_wei |-> CharsOf(amount)]]

\* the calls of the handler in their order
SendEthCalls(in, amount, gasEstimate) ==
    <<Call("connect", None),
      Call("getBalance", None),
      Call("estimateGas", Some(amount)),
      Call("getGasPrice", None),
      Call("sendTransaction", Some(EthTransaction(in, amount, gasEstimate))),
      Call("waitForTransactionReceipt", None)>>

\* the steps of the handler: connect, getBalance, the balance check,
\* estimateGas, getGasPrice, the check of balance against amount and gas,
\* sendTransaction, waitForTransactionReceipt, disconnect (finally); outcome
\* is the first external call that fails, if any
SendEthSteps(in, outcome, amount, balance, gasCost, all) ==
    IF outcome = "connect fails" \/ amount = Thrown
    THEN SendEthThrow(in, SubSeq(all, 1, 1), SendEthFailed)
    ELSE IF outcome = "balance fails"
    THEN SendEthThrow(in, SubSeq(all, 1, 2), SendEthFailed)
    ELSE IF BigLess(balance, amount)
    THEN SendEthThrow(in, SubSeq(all, 1, 2), SendEthInsufficient)
    ELSE IF outcome = "estimate fails"
    THEN SendEthThrow(in, SubSeq(all, 1, 3), SendEthSimulationFailed)
    ELSE IF outcome = "price fails"
    THEN SendEthThrow(in, SubSeq(all, 1, 4), SendEthFailed)
    ELSE IF ~CoversAmountAndGas(balance, amount, gasCost)
    THEN SendEthThrow(in, SubSeq(all, 1, 4), SendEthInsufficientForGas)
    ELSE IF outcome = "send fails"
    THEN SendEthThrow(in, SubSeq(all, 1, 5), SendEthFailed)
    ELSE IF outcome = "wait fails"
    THEN SendEthThrow(in, all, SendEthFailed)
    ELSE [input |-> in, licenseTerms |-> None,
          calls |-> all \o <<Call("disconnect", None)>>,
          response |-> ResultResponse(SendEthResult(amount))]

\* the steps on the amount as parseEther scaled it, with the gas cost of
\* the values read
SendEthScaled(in, answer, amount) ==
    SendEthSteps(in, answer.outcome, amount, answer.balance,
                 GasCost(answer.gasEstimate, answer.gasPrice),
                 SendEthCalls(in, amount, answer.gasEstimate))

\* the handler; answer is what the chain answers: the first call that
\* fails, the balance, the gas estimate and the gas price
SendEthHandler(in, answer) ==
    SendEthScaled(in, answer, ScaleFee(in.amount))

\* the amounts sent: none, 0, 1.5 and 0.0000001
SendAmountArgs ==
    {None, Some(NumZero), Some(Num(FALSE, <<1, 5>>, 1)), Some(Num(FALSE, <<1>>, -6))}

\* gas of a transfer
TransferGas == <<2, 1, 0, 0, 0>>

\* 1.5 ETH in wei, and 1.5 ETH and 21000 wei
OneAndHalfEther == <<1, 5>> \o Zeros(EtherDecimals - 1)
EthBalances ==
    {BigZero, OneAndHalfEther, BigAdd(OneAndHalfEther, TransferGas), TwoEther}

\* the gas prices read, in wei
MaxGasPrice == 2
GasPrices == 0..MaxGasPrice

\* the arguments sent to story_send_eth
SendEthParams(destination, amount) ==
    [destination |-> destination, amount |-> amount]

SendEthInvoke(params, answer) ==
    Invoke("story_send_eth", params, SendEthSchemaValid(params),
           SendEthHandler(SendEthSchemaParse(params), answer), answer)

SendETHTool ==
    /\ phase = "idle"
    /\ \E destination \in {WipShortcut, SpenderAddress},
          amount \in SendAmountArgs,
          outcome \in {"unused", "ok", "connect fails", "balance fails",
                       "estimate fails", "price fails", "send fails",
                       "wait fails"},
          balance \in EthBalances,
          gasPrice \in GasPrices :
        /\ outcome = "unused" => balance = BigZero /\ gasPrice = 0
        /\ SendEthInvoke(SendEthParams(destination, amount),
                         [outcome |-> outcome, balance |-> balance,
                          gasEstimate |-> TransferGas, gasPrice |-> gasPrice])
    /\ phase' = "done"

\* ------------------------------------------------------------------------
\* story_send_token
\* ------------------------------------------------------------------------

\* the schema: both addresses match the pattern, the amount is given and
\* positive
SendTokenSchemaValid(params) ==
    /\ IsAddress(params.token_address)
    /\ IsAddress(params.destination)
    /\ IsSome(params.amount)
    /\ ~Get(params.amount).neg
    /\ ~IsZero(Get(params.amount))

SendTokenSchemaParse(params) ==
    [token_address |-> params.token_address,
     destination |-> params.destination,
     amount |-> Get(params.amount)]

\* the three reads of Promise.all, in the order they are issued
TokenReads == <<"balanceOf", "symbol", "decimals">>

\* the orders in which the three reads can complete
CompletionOrders ==
    {order \in [DOMAIN TokenReads -> {TokenReads[i] : i \in DOMAIN TokenReads}] :
        \A i, j \in DOMAIN TokenReads : order[i] = order[j] => i = j}

\* Promise.all rejects as soon as one of its promises rejects, with the
\* reason of that one: the first of the failed reads to complete
FirstRejected(order, failed) ==
    order[CHOOSE i \in DOMAIN order :
            /\ order[i] \in failed
            /\ \A j \in DOMAIN order : j < i => order[j] \notin failed]

\* the messages of the errors the handler throws
SendTokenFailed == "Failed to send tokens"
SendTokenInsufficient == "Failed to send tokens: Insufficient balance"
SendTokenReadFailed(read) ==
    CASE read = "balanceOf" -> "Failed to send tokens: balanceOf failed"
      [] read = "symbol" -> "Failed to send tokens: symbol failed"
      [] read = "decimals" -> "Failed to send tokens: decimals failed"

\* the handler threw after the calls made: disconnect (finally)
SendTokenThrow(in, made, message) ==
    [input |-> in, licenseTerms |-> None,
     calls |-> made \o <<Call("disconnect", None)>>,
     response |-> ErrorResponse(message)]

\* a variant of Promise.all in which only the balance is awaited
BalanceRejected(failed) == "balanceOf" \in failed

\* Promise.all rejects when one of the reads does
AnyRejected(failed) == failed # {}

\* a variant of the balance check that stops an empty balance only
EmptyBalance(balance, amount) == balance = BigZero

\* balance < amount
InsufficientTokens(balance, amount) == BigLess(balance, amount)

\* connect, and the three reads Promise.all issues together
SendTokenReads ==
    <<Call("connect", None)>>
    \o [i \in DOMAIN TokenReads |-> Call("readContract", Some(TokenReads[i]))]

\* the transfer simulated; simulateContract returns it as the request
TransferRequest(in, amount) ==
    [functionName |-> "transfer", args |-> <<in.destination, amount>>]

\* a variant of the writes in which writeContract is sent again
SendTokenWritesRetried(transfer) ==
    <<Call("simulateContract", Some(transfer)),
      Call("writeContract", Some(transfer)),
      Call("writeContract", Some(transfer)),
      Call("waitForTransactionReceipt", None)>>

\* the calls of the transfer: simulateContract, writeContract(request),
\* waitForTransactionReceipt
SendTokenWrites(transfer) ==
    <<Call("simulateContract", Some(transfer)),
      Call("writeContract", Some(transfer)),
      Call("waitForTransactionReceipt", None)>>

\* the object returned: its status, amount_wei and decimals
SendTokenResult(amount, decimals) ==
    [status |-> "success",
     transaction_details |-> [amount_wei |-> CharsOf(amount),
                              decimals |-> decimals]]

\* the steps of the handler: connect, the three reads, the balance check,
\* the transfer, disconnect (finally); outcome is the first of connect and
\* the calls of the transfer that fails, if any, failed the reads that fail
SendTokenSteps(in, outcome, failed, order, balance, decimals, amount, writes) ==
    IF outcome = "connect fails" \/ amount = Thrown
    THEN SendTokenThrow(in, SubSeq(SendTokenReads, 1, 1), SendTokenFailed)
    ELSE IF AnyRejected(failed)
    THEN SendTokenThrow(in, SendTokenReads,
                        SendTokenReadFailed(FirstRejected(order, failed)))
    ELSE IF InsufficientTokens(balance, amount)
    THEN SendTokenThrow(in, SendTokenReads, SendTokenInsufficient)
    ELSE IF outcome = "simulate fails"
    THEN SendTokenThrow(in, SendTokenReads \o SubSeq(writes, 1, 1), SendTokenFailed)
    ELSE IF outcome = "write fails"
    THEN SendTokenThrow(in, SendTokenReads \o SubSeq(writes, 1, 2), SendTokenFailed)
    ELSE IF outcome = "wait fails"
    THEN SendTokenThrow(in, SendTokenReads \o writes, SendTokenFailed)
    ELSE [input |-> in, licenseTerms |-> None,
          calls |-> SendTokenReads \o writes \o <<Call("disconnect", None)>>,
          response |-> ResultResponse(SendTokenResult(amount, decimals))]

\* the steps on the amount as parseEther scaled it
SendTokenScaled(in, answer, amount) ==
    SendTokenSteps(in, answer.outcome, answer.failed, answer.order,
                   answer.balance, answer.decimals, amount,
                   SendTokenWrites(TransferRequest(in, amount)))

\* the handler; answer is what the chain answers: the first call that
\* fails, the reads that fail, the order in which the reads complete, the
\* balance and the decimals
SendTokenHandler(in, answer) ==
    SendTokenScaled(in, answer, ScaleFee(in.amount))

\* 1 token of 18 decimals in base units
OneEther == <<1>> \o Zeros(EtherDecimals)

\* the balances and the decimals read
TokenBalances == {BigZero, OneEther, TwoEther}
TokenDecimals == {6, EtherDecimals}

\* the arguments sent to story_send_token
SendTokenParams(token, amount) ==
    [token_address |-> token,
     destination |-> SpenderAddress,
     amount |-> amount]

SendTokenInvoke(params, answer) ==
    Invoke("story_send_token", params, SendTokenSchemaValid(params),
           SendTokenHandler(SendTokenSchemaParse(params), answer), answer)

SendTokenTool ==
    /\ phase = "idle"
    /\ \E token \in {WipShortcut, TokenAddress},
          amount \in SendAmountArgs,
          outcome \in {"unused", "ok", "connect fails", "simulate fails",
                       "write fails", "wait fails"},
          failed \in SUBSET {TokenReads[i] : i \in DOMAIN TokenReads},
          order \in CompletionOrders,
          balance \in TokenBalances,
          decimals \in TokenDecimals :
        /\ outcome = "unused" =>
              /\ failed = {}
              /\ order = TokenReads
              /\ balance = BigZero
              /\ decimals = EtherDecimals
        /\ SendTokenInvoke(SendTokenParams(token, amount),
                           [outcome |-> outcome, failed |-> failed,
                            order |-> order, balance |-> balance,
                            decimals |-> decimals])
    /\ phase' = "done"

\* ------------------------------------------------------------------------
\* story_get_transaction_history; limit is a JavaScript number, written here
\* in halves: 2 is the limit 1, 3 the limit 1.5, 40 the limit 20
\* ------------------------------------------------------------------------

\* limit: z.number().min(1).max(100), no .int()
MinLimitHalves == 2
MaxLimitHalves == 200
HistorySchemaValid(params) ==
    /\ IsSome(params.account_address) => IsAddress(Get(params.account_address))
    /\ IsSome(params.limit) =>
            /\ Get(params.limit) >= MinLimitHalves
            /\ Get(params.limit) <= MaxLimitHalves

\* the schema's default: limit 20
DefaultLimitHalves == 40
HistorySchemaParse(params) ==
    [account_address |-> params.account_address,
     limit |-> OrElse(params.limit, DefaultLimitHalves)]

\* agent.account.address
WalletAccount == <<"0", "x">> \o [i \in 1..AddressLength |-> "b"]

\* input.account_address || agent.account.address
TargetAddress(in) == OrElse(in.account_address, WalletAccount)

\* Math.min(Number(limit * 5), 1000), in halves
BlocksCap == 1000
BlocksToCheckHalves(limit) ==
    IF 5 * limit < 2 * BlocksCap THEN 5 * limit ELSE 2 * BlocksCap

\* tx.from or tx.to is the target, letter case apart
InvolvesTarget(tx, target) ==
    \/ toLowerCase(tx.from) = toLowerCase(target)
    \/ toLowerCase(tx.to) = toLowerCase(target)

\* the entry pushed for a transaction, with its receipt or without
HistoryEntry(tx, number, index, target) ==
    [hash |-> <<number, index>>,
     block_number |-> CharsOf(NatDigits(number)),
     from |-> tx.from,
     to |-> tx.to,
     status |-> IF tx.receipt THEN "success" ELSE "unknown",
     type |-> IF toLowerCase(tx.from) = toLowerCase(target)
              THEN "sent" ELSE "received"]

\* recentTransactions.length < limit
BelowLimit(found, limit) == 2 * Len(found) < limit

\* the transactions of one block: each that involves the target, while the
\* limit is not reached, has its receipt fetched and is pushed
RECURSIVE ScanTransactions(_, _, _, _, _, _)
ScanTransactions(txs, k, number, target, limit, acc) ==
    IF k > Len(txs) THEN acc
    ELSE IF InvolvesTarget(txs[k], target) /\ BelowLimit(acc.found, limit)
    THEN ScanTransactions(txs, k + 1, number, target, limit,
            [found |-> Append(acc.found, HistoryEntry(txs[k], number, k, target)),
             made |-> Append(acc.made,
                             Call("getTransactionReceipt", Some(<<number, k>>)))])
    ELSE ScanTransactions(txs, k + 1, number, target, limit, acc)

\* i < blocksToCheck && recentTransactions.length < limit
LoopGoesOn(i, found, limit) ==
    2 * i < BlocksToCheckHalves(limit) /\ BelowLimit(found, limit)

\* the loop over the blocks from currentBlock down: getBlock, and the scan
\* of its transactions; a block that cannot be fetched is skipped
RECURSIVE ScanBlocks(_, _, _, _, _, _)
ScanBlocks(i, currentBlock, blocks, target, limit, acc) ==
    IF ~LoopGoesOn(i, acc.found, limit) THEN acc
    ELSE IF currentBlock - i < 0 \/ ~blocks[currentBlock - i].ok
    THEN ScanBlocks(i + 1, currentBlock, blocks, target, limit,
            [acc EXCEPT !.made = Append(@, Call("getBlock", Some(currentBlock - i)))])
    ELSE ScanBlocks(i + 1, currentBlock, blocks, target, limit,
            ScanTransactions(blocks[currentBlock - i].transactions, 1,
                currentBlock - i, target, limit,
                [acc EXCEPT !.made = Append(@, Call("getBlock",
                                                    Some(currentBlock - i)))]))

\* the place of an entry in a list sorted by blockB - blockA: behind the
\* entries whose block number is not smaller
RECURSIVE InsertByBlock(_, _)
InsertByBlock(sorted, entry) ==
    IF sorted = <<>> THEN <<entry>>
    ELSE IF parseInt(sorted[1].block_number) >= parseInt(entry.block_number)
    THEN <<sorted[1]>> \o InsertByBlock(Tail(sorted), entry)
    ELSE <<entry>> \o sorted

\* recentTransactions.sort(...): stable, block number descending
RECURSIVE SortByBlock(_)
SortByBlock(entries) ==
    IF entries = <<>> THEN <<>>
    ELSE InsertByBlock(SortByBlock(SubSeq(entries, 1, Len(entries) - 1)),
                       entries[Len(entries)])

HistoryFailed == "Failed to get transaction history"

\* the handler threw after the calls made: disconnect (finally)
HistoryThrow(in, made) ==
    [input |-> in, licenseTerms |-> None,
     calls |-> made \o <<Call("disconnect", None)>>,
     response |-> ErrorResponse(HistoryFailed)]

\* the object returned: its status, the count and the transactions
HistoryResult(entries) ==
    [status |-> "success",
     transaction_summary |-> [total_transactions |-> Len(entries)],
     transactions |-> entries]

\* the handler returns what the loop found, sorted
HistoryReturn(in, scanned) ==
    [input |-> in, licenseTerms |-> None,
     calls |-> scanned.made \o <<Call("disconnect", None)>>,
     response |-> ResultResponse(HistoryResult(SortByBlock(scanned.found)))]

\* the handler; answer is what the chain answers: the first of connect and
\* getBlockNumber that fails, if any, the block number and the blocks
HistoryHandler(in, answer) ==
    IF answer.outcome = "connect fails"
    THEN HistoryThrow(in, <<Call("connect", None)>>)
    ELSE IF answer.outcome = "number fails"
    THEN HistoryThrow(in, <<Call("connect", None), Call("getBlockNumber", None)>>)
    ELSE HistoryReturn(in,
            ScanBlocks(0, answer.currentBlock, answer.blocks,
                       TargetAddress(in), in.limit,
                       [found |-> <<>>,
                        made |-> <<Call("connect", None),
                                   Call("getBlockNumber", None)>>]))

\* the transactions of the blocks read: one the account sent, one it
\* received and whose receipt cannot be fetched, one of other accounts
SentTx == [from |-> WalletAccount, to |-> TokenAddress, receipt |-> TRUE]
ReceivedTx == [from |-> TokenAddress, to |-> SpenderAddress, receipt |-> FALSE]
OtherTx == [from |-> TokenAddress, to |-> TokenAddress, receipt |-> TRUE]

\* what getBlock answers for a block: it fails, or the block's transactions
BlockAnswers ==
    {[ok |-> FALSE, transactions |-> <<>>]}
    \cup {[ok |-> TRUE, transactions |-> txs] :
            txs \in {<<>>, <<SentTx>>, <<OtherTx>>, <<ReceivedTx>>,
                     <<SentTx, ReceivedTx>>}}

\* the limits sent, in halves: none, 0.5, 1, 1.5 and 2
LimitArgs == {None, Some(1), Some(2), Some(3), Some(4)}

\* the arguments sent to story_get_transaction_history
HistoryParams(address, limit) ==
    [account_address |-> address, limit |-> limit]

HistoryInvoke(params, answer) ==
    Invoke("story_get_transaction_history", params, HistorySchemaValid(params),
           HistoryHandler(HistorySchemaParse(params), answer), answer)

GetTransactionHistoryTool ==
    /\ phase = "idle"
    /\ \E address \in {None, Some(SpenderAddress), Some(WipShortcut)},
          limit \in LimitArgs,
          outcome \in {"unused", "ok", "connect fails", "number fails"},
          currentBlock \in 0..MaxBlock :
        \E blocks \in [0..currentBlock -> BlockAnswers] :
            /\ outcome # "ok" =>
                  /\ currentBlock = 0
                  /\ blocks[0] = [ok |-> FALSE, transactions |-> <<>>]
            /\ HistoryInvoke(HistoryParams(address, limit),
                             [outcome |-> outcome, currentBlock |-> currentBlock,
                              blocks |-> blocks])
    /\ phase' = "done"

\* the wrapper has answered; the server awaits the next request
NextRequest ==
    /\ phase = "done"
    /\ phase' = "idle"
    /\ request' = None
    /\ input' = None
    /\ licenseTerms' = None
    /\ calls' = <<>>
    /\ chain' = None
    /\ response' = None

Init ==
    /\ phase = "idle"
    /\ request = None
    /\ input = None
    /\ licenseTerms = None
    /\ calls = <<>>
    /\ chain = None
    /\ response = None

Next ==
    \/ CreateLicenseTermsTool
    \/ RegisterIPTool
    \/ MintLicenseTool
    \/ ApproveTokenTool
    \/ SendETHTool
    \/ SendTokenTool
    \/ GetTransactionHistoryTool
    \/ NextRequest

Spec == Init /\ [][Next]_vars

\* ------------------------------------------------------------------------
\* What an answered request shows
\* ------------------------------------------------------------------------

\* the wrapper has answered a call of the tool
Answered(tool) == phase = "done" /\ request.tool = tool

\* the arguments of the external calls named ops that the handler made
Submitted(ops) ==
    {Get(calls[i].arg) : i \in {j \in DOMAIN calls : calls[j].op \in ops}}

\* the terms handed to registerPILTerms by story_create_license_terms
RegisteredTerms == Submitted({"registerPILTerms"})

\* the requests handed to mintLicenseTokens
MintRequests == Submitted({"mintLicenseTokens"})

\* story_create_license_terms ran its handler on the license type
Created(type) ==
    /\ Answered("story_create_license_terms")
    /\ IsSome(input)
    /\ Get(input).license_type = type

\* fee * 10^18 of a non-negative decimal fee with at most 18 fraction
\* digits: its digits followed by the zeros that are left of the 18
ExactBaseUnits(fee) ==
    IF IsZero(fee) THEN <<0>>
    ELSE fee.digits \o Zeros(EtherDecimals + fee.exp - Len(fee.digits))

\* ------------------------------------------------------------------------
\* Royalty policy and the disabled groups of flags
\* ------------------------------------------------------------------------

\* C1: every license terms record built for commercial_remix, commercial_use
\* and custom (by story_create_license_terms and by story_register_ip) has
\* royaltyPolicy = LAP if commercialUse and commercialRevShare > 0, and the
\* zero address otherwise
C1_RoyaltyPolicyRule ==
    (phase = "done" /\ IsSome(licenseTerms)) =>
        ((request.tool = "story_create_license_terms"
              => Get(input).license_type # "non_commercial")
         => Get(licenseTerms).royaltyPolicy =
                (IF Get(licenseTerms).commercialUse
                    /\ Get(licenseTerms).commercialRevShare > 0
                 THEN RoyaltyPolicyLAP ELSE zeroAddress))

\* story_register_ip with commercial_rev_share 0 registered terms whose
\* royaltyPolicy is LAP
C1_RegisterIpZeroShare ==
    /\ Answered("story_register_ip")
    /\ request.params.commercial_rev_share = Some(0)
    /\ ~response.isError
    /\ IsSome(licenseTerms)
    /\ Get(licenseTerms).commercialUse
    /\ Get(licenseTerms).commercialRevShare = 0
    /\ Get(licenseTerms).royaltyPolicy = RoyaltyPolicyLAP

\* C2: built license terms with commercialUse = false have
\* commercialAttribution = false, commercialRevShare = 0 and royaltyPolicy =
\* the zero address, whatever the preset
C2_CommercialDisabled ==
    (IsSome(licenseTerms) /\ ~Get(licenseTerms).commercialUse) =>
        /\ ~Get(licenseTerms).commercialAttribution
        /\ Get(licenseTerms).commercialRevShare = 0
        /\ Get(licenseTerms).royaltyPolicy = zeroAddress

\* custom with commercial_use false and nothing else registered terms with
\* commercialUse = false and commercialAttribution = true
C2_CustomKeepsAttribution ==
    /\ Created("custom")
    /\ request.params.commercial_use = Some(FALSE)
    /\ IsNone(request.params.commercial_attribution)
    /\ IsNone(request.params.description)
    /\ ~response.isError
    /\ \E t \in RegisteredTerms : ~t.commercialUse /\ t.commercialAttribution

\* C3: built license terms with derivativesAllowed = false have
\* derivativesAttribution, derivativesApproval and derivativesReciprocal all
\* false, whatever the preset
C3_DerivativesDisabled ==
    (IsSome(licenseTerms) /\ ~Get(licenseTerms).derivativesAllowed) =>
        /\ ~Get(licenseTerms).derivativesAttribution
        /\ ~Get(licenseTerms).derivativesApproval
        /\ ~Get(licenseTerms).derivativesReciprocal

\* custom with derivatives_allowed false and nothing else registered terms
\* with derivativesAllowed = false and derivativesAttribution and
\* derivativesReciprocal = true
C3_CustomKeepsDerivativeFlags ==
    /\ Created("custom")
    /\ request.params.derivatives_allowed = Some(FALSE)
    /\ IsNone(request.params.derivatives_attribution)
    /\ IsNone(request.params.description)
    /\ ~response.isError
    /\ \E t \in RegisteredTerms :
            /\ ~t.derivativesAllowed
            /\ t.derivativesAttribution
            /\ t.derivativesReciprocal

\* ------------------------------------------------------------------------
\* Revenue share range
\* ------------------------------------------------------------------------

\* C4: every terms record story_create_license_terms hands to
\* registerPILTerms has commercialRevShare in 0..100; a commercial_rev_share
\* argument or a percentage of the description outside the range fails with
\* a validation error and nothing is registered
C4_RevShareInRange ==
    Answered("story_create_license_terms") =>
        /\ \A t \in RegisteredTerms : t.commercialRevShare \in 0..100
        /\ (/\ IsSome(request.params.commercial_rev_share)
            /\ Get(request.params.commercial_rev_share) \notin 0..100)
           => (response = ErrorResponse(InvalidArguments) /\ calls = <<>>)
        /\ (/\ Created("custom")
            /\ IsSome(MatchTable[request.params.description].percentMatch)
            /\ parseInt(Get(MatchTable[request.params.description].percentMatch))
                   \notin 0..100)
           => (response.isError /\ RegisteredTerms = {})

\* custom with the description "$500 upfront, 150% share" registered terms
\* with commercialRevShare = 150
C4_Registered150Percent ==
    /\ Created("custom")
    /\ request.params.description = Some(Phrases[3])
    /\ ~response.isError
    /\ \E t \in RegisteredTerms : t.commercialRevShare = 150

\* ------------------------------------------------------------------------
\* story_mint_license: the fee ceiling and the amount
\* ------------------------------------------------------------------------

\* C5: without max_minting_fee, the maxMintingFee handed to
\* mintLicenseTokens is total + floor(total / 10), the total being the
\* per-token fee times the amount; a per-token fee of more than 6 digits is
\* h * 10^16, so that the ceiling is 11 * h * amount * 10^15
C5_DefaultCeiling ==
    \A r \in MintRequests :
        IsNone(request.params.max_minting_fee) =>
            /\ r.amount = Get(input).amount
            /\ r.amount >= 1
            /\ IF Len(Get(chain).mintingFee) <= 6
               THEN /\ DigitsNat(r.maxMintingFee) =
                          DigitsNat(Get(chain).mintingFee) * r.amount
                          + (DigitsNat(Get(chain).mintingFee) * r.amount) \div 10
                    /\ r.maxMintingFee = NatDigits(DigitsNat(r.maxMintingFee))
               ELSE /\ SubSeq(Get(chain).mintingFee,
                              Len(Get(chain).mintingFee) - 15,
                              Len(Get(chain).mintingFee)) = Zeros(16)
                    /\ r.maxMintingFee =
                          NatDigits(11 * r.amount
                                    * DigitsNat(SubSeq(Get(chain).mintingFee, 1,
                                            Len(Get(chain).mintingFee) - 16)))
                          \o Zeros(15)

\* a per-token fee of 1000 and an amount of 3 without max_minting_fee:
\* mintLicenseTokens gets the amount 3 and maxMintingFee 3300 = 3000 + 300
C5_Thousand3 ==
    /\ Answered("story_mint_license")
    /\ IsNone(request.params.max_minting_fee)
    /\ request.params.amount = Some(3)
    /\ Get(chain).mintingFee = <<1, 0, 0, 0>>
    /\ ~response.isError
    /\ \E r \in MintRequests : r.amount = 3 /\ r.maxMintingFee = <<3, 3, 0, 0>>

\* C6: with max_minting_fee, the maxMintingFee handed to mintLicenseTokens
\* is the caller's value times 10^18, whatever the total is
C6_CallerCeilingVerbatim ==
    \A r \in MintRequests :
        IsSome(request.params.max_minting_fee) =>
            r.maxMintingFee = ExactBaseUnits(Get(request.params.max_minting_fee))

\* max_minting_fee 0 with a positive total: mintLicenseTokens gets
\* maxMintingFee 0
C6_ZeroBelowTotal ==
    /\ Answered("story_mint_license")
    /\ request.params.max_minting_fee = Some(NumZero)
    /\ request.params.amount = Some(3)
    /\ Get(chain).mintingFee = <<1, 0, 0, 0>>
    /\ \E r \in MintRequests : r.maxMintingFee = <<0>>

\* C7: a call of story_mint_license with an amount below 1 is answered with
\* the error of invalid arguments and makes no call of mintLicenseTokens
C7_AmountBelowOne ==
    (/\ Answered("story_mint_license")
     /\ IsSome(request.params.amount)
     /\ Get(request.params.amount) < 1)
    => /\ response = ErrorResponse(InvalidArguments)
       /\ MintRequests = {}
       /\ calls = <<>>

\* amount 0 was answered with the error
C7_AmountZeroRejected ==
    /\ Answered("story_mint_license")
    /\ request.params.amount = Some(0)
    /\ response.isError
    /\ response.error = InvalidArguments
    /\ calls = <<>>

\* ------------------------------------------------------------------------
\* Fee scaling
\* ------------------------------------------------------------------------

\* C8: a non-negative minting fee with at most 18 fraction digits is scaled
\* to exactly fee * 10^18: story_register_ip and the custom preset without
\* a description, when no external call fails, build terms whose
\* defaultMintingFee is that
C8_ExactFeeScaling ==
    (/\ phase = "done"
     /\ IsSome(input)
     /\ Get(chain).outcome = "ok"
     /\ \/ /\ request.tool = "story_register_ip"
           /\ IsNone(request.params.content_url)
           /\ IsSome(request.params.title)
           /\ IsSome(request.params.description)
        \/ /\ Created("custom")
           /\ IsNone(request.params.description)
     /\ FractionDigits(Get(input).minting_fee) <= EtherDecimals)
    => /\ IsSome(licenseTerms)
       /\ Get(licenseTerms).defaultMintingFee = ExactBaseUnits(Get(input).minting_fee)

\* a minting fee of 0.0000001 on the custom preset: no terms are built and
\* the tool answers with an error although no external call failed
C8_SmallFeeThrows ==
    /\ Created("custom")
    /\ IsNone(request.params.description)
    /\ request.params.minting_fee = Some(Num(FALSE, <<1>>, -6))
    /\ Get(chain).outcome = "ok"
    /\ IsNone(licenseTerms)
    /\ response = ErrorResponse(CreateFailed)
    /\ RegisteredTerms = {}

\* ------------------------------------------------------------------------
\* The overrides of the description
\* ------------------------------------------------------------------------

\* C9: on the custom preset a description with "no commercial" and an
\* <integer>% gives terms with commercialUse = false and commercialRevShare
\* the matched integer, and with "free" also in it defaultMintingFee = 0
C9_NoCommercialPercentFree ==
    (/\ Created("custom")
     /\ IsSome(licenseTerms)
     /\ MatchTable[request.params.description].noCommercial
     /\ IsSome(MatchTable[request.params.description].percentMatch))
    => /\ ~Get(licenseTerms).commercialUse
       /\ Get(licenseTerms).commercialRevShare =
              parseInt(Get(MatchTable[request.params.description].percentMatch))
       /\ MatchTable[request.params.description].free
              => Get(licenseTerms).defaultMintingFee = <<0>>

\* "no commercial, free minting, 20% revenue share, Royalty-Free, 10 wip":
\* commercialUse = false and commercialRevShare = 20, and defaultMintingFee
\* = 10 * 10^18
C9_FreeWithFeeAmount ==
    /\ Created("custom")
    /\ request.params.description = Some(Join(<<1, 2>>))
    /\ ~response.isError
    /\ \E t \in RegisteredTerms :
            /\ ~t.commercialUse
            /\ t.commercialRevShare = 20
            /\ t.defaultMintingFee = <<1, 0>> \o Zeros(EtherDecimals)

\* C10: on the custom preset a description matching "free" or "no fee" and
\* the fee amount pattern gives terms with defaultMintingFee = 0
C10_FreeRuleDecides ==
    (/\ Created("custom")
     /\ IsSome(licenseTerms)
     /\ MatchTable[request.params.description].free
     /\ IsSome(MatchTable[request.params.description].feeMatch))
    => Get(licenseTerms).defaultMintingFee = <<0>>

\* "Royalty-Free, 10 wip" registered terms with defaultMintingFee = 10 * 10^18
C10_RoyaltyFree10Wip ==
    /\ Created("custom")
    /\ request.params.description = Some(Phrases[2])
    /\ ~response.isError
    /\ \E t \in RegisteredTerms : t.defaultMintingFee = <<1, 0>> \o Zeros(EtherDecimals)

\* ------------------------------------------------------------------------
\* The presets
\* ------------------------------------------------------------------------

\* C11: the terms of commercial_remix have the caller's minting_fee times
\* 10^18 and the caller's commercial_rev_share whenever the caller gave
\* them, 0 included, and 1 token and 5 only when the caller gave nothing
C11_RemixTakesCallerValues ==
    (Created("commercial_remix") /\ IsSome(licenseTerms)) =>
        /\ Get(licenseTerms).defaultMintingFee =
               ExactBaseUnits(OrElse(request.params.minting_fee, NatNum(1)))
        /\ Get(licenseTerms).commercialRevShare =
               OrElse(request.params.commercial_rev_share, 5)

\* commercial_remix with minting_fee 0 and commercial_rev_share 0 registered
\* terms with defaultMintingFee = 10^18 and commercialRevShare = 5
C11_ZeroReplacedByDefault ==
    /\ Created("commercial_remix")
    /\ request.params.minting_fee = Some(NumZero)
    /\ request.params.commercial_rev_share = Some(0)
    /\ ~response.isError
    /\ \E t \in RegisteredTerms :
            /\ t.defaultMintingFee = <<1>> \o Zeros(EtherDecimals)
            /\ t.commercialRevShare = 5

\* C12: the terms of commercial_use have commercialUse = true,
\* derivativesAllowed = false and the three flags of the derivatives false
\* whatever the caller's flags are, and royaltyPolicy = LAP when
\* commercialRevShare > 0, the zero address otherwise
C12_CommercialUseForcesFlags ==
    (Created("commercial_use") /\ IsSome(licenseTerms)) =>
        /\ Get(licenseTerms).commercialUse
        /\ ~Get(licenseTerms).derivativesAllowed
        /\ ~Get(licenseTerms).derivativesAttribution
        /\ ~Get(licenseTerms).derivativesApproval
        /\ ~Get(licenseTerms).derivativesReciprocal
        /\ Get(licenseTerms).commercialRevShare = Get(input).commercial_rev_share
        /\ Get(licenseTerms).royaltyPolicy =
               (IF Get(licenseTerms).commercialRevShare > 0
                THEN RoyaltyPolicyLAP ELSE zeroAddress)

\* commercial_use with commercial_use false and derivatives_approval true
\* registered terms with commercialUse = true and no flag of the
\* derivatives
C12_CallerFlagsIgnored ==
    /\ Created("commercial_use")
    /\ request.params.commercial_use = Some(FALSE)
    /\ request.params.derivatives_approval = Some(TRUE)
    /\ IsNone(request.params.derivatives_allowed)
    /\ request.params.commercial_rev_share = Some(20)
    /\ ~response.isError
    /\ \E t \in RegisteredTerms :
            /\ t.commercialUse
            /\ ~t.derivativesAllowed
            /\ ~t.derivativesApproval
            /\ t.royaltyPolicy = RoyaltyPolicyLAP

\* C13: the terms of non_commercial are one record whatever the caller's
\* arguments are: no commercial use, attribution or share, derivatives
\* allowed with attribution and reciprocity and without approval, no
\* royalty policy, no fee, no currency; they are built whenever the handler
\* connects
C13_NonCommercialConstant ==
    (Created("non_commercial") /\ Get(chain).outcome # "connect fails") =>
        /\ IsSome(licenseTerms)
        /\ ~Get(licenseTerms).commercialUse
        /\ ~Get(licenseTerms).commercialAttribution
        /\ Get(licenseTerms).commercialRevShare = 0
        /\ Get(licenseTerms).derivativesAllowed
        /\ Get(licenseTerms).derivativesAttribution
        /\ Get(licenseTerms).derivativesReciprocal
        /\ ~Get(licenseTerms).derivativesApproval
        /\ Get(licenseTerms).royaltyPolicy = zeroAddress
        /\ Get(licenseTerms).defaultMintingFee = <<0>>
        /\ Get(licenseTerms).currency = zeroAddress

\* non_commercial with a fee, a share, commercial_attribution and a
\* description of a fee registered terms without fee and share
C13_ArgumentsIgnored ==
    /\ Created("non_commercial")
    /\ request.params.minting_fee = Some(Num(FALSE, <<1, 5>>, 1))
    /\ request.params.commercial_rev_share = Some(20)
    /\ request.params.derivatives_allowed = Some(FALSE)
    /\ request.params.description = Some(Phrases[2])
    /\ ~response.isError
    /\ \E t \in RegisteredTerms :
            /\ t.defaultMintingFee = <<0>>
            /\ t.commercialRevShare = 0
            /\ t.derivativesAllowed

\* C14: an optional numeric argument left unset is zero in the terms of the
\* custom and commercial_use presets: commercial_rev_ceiling gives
\* commercialRevCeiling = 0, expiration gives expiration = 0 and, without a
\* description, commercial_rev_share gives commercialRevShare = 0
C14_UnsetNumbersAreZero ==
    ((Created("custom") \/ Created("commercial_use")) /\ IsSome(licenseTerms)) =>
        /\ IsNone(request.params.commercial_rev_ceiling)
              => Get(licenseTerms).commercialRevCeiling = <<0>>
        /\ IsNone(request.params.expiration)
              => Get(licenseTerms).expiration = <<0>>
        /\ (/\ IsNone(request.params.commercial_rev_share)
            /\ IsNone(request.params.description))
              => Get(licenseTerms).commercialRevShare = 0

\* custom without commercial_rev_ceiling registered terms with
\* commercialRevCeiling = 5
C14_CeilingDefaultsToFive ==
    /\ Created("custom")
    /\ IsNone(request.params.commercial_rev_ceiling)
    /\ ~response.isError
    /\ \E t \in RegisteredTerms : t.commercialRevCeiling = <<5>>

\* ------------------------------------------------------------------------
\* The builder as a function of its parameters
\* ------------------------------------------------------------------------

\* C15: the terms built are a function of the arguments (equal arguments
\* give equal terms), and building again from the input object the handler
\* left gives the same terms, or fails again where the first build failed
C15_BuildAgainSameTerms ==
    (/\ Answered("story_create_license_terms")
     /\ IsSome(input)
     /\ Get(chain).outcome # "connect fails")
    => /\ IF Built(BuildLicenseTerms(CreateSchemaParse(request.params),
                                     MatchTable[request.params.description]))
          THEN licenseTerms =
                 Some(BuildLicenseTerms(CreateSchemaParse(request.params),
                                        MatchTable[request.params.description]))
          ELSE IsNone(licenseTerms)
       /\ IF Built(BuildLicenseTerms(Get(input),
                                     MatchTable[Get(input).description]))
          THEN licenseTerms =
                 Some(BuildLicenseTerms(Get(input),
                                        MatchTable[Get(input).description]))
          ELSE IsNone(licenseTerms)

\* custom with "no commercial, free minting, 20% revenue share,
\* Royalty-Free, 10 wip": the input object was changed, and building again
\* from it gives the terms registered
C15_SecondBuildOnLeftInput ==
    /\ Created("custom")
    /\ request.params.description = Some(Join(<<1, 2>>))
    /\ request.params.commercial_rev_share = Some(0)
    /\ ~response.isError
    /\ Get(input) # CreateSchemaParse(request.params)
    /\ Get(input).commercial_rev_share = 20
    /\ RegisteredTerms =
          {BuildLicenseTerms(Get(input), MatchTable[Get(input).description])}

\* C16: for commercial_remix, non_commercial and commercial_use the terms
\* built are those built from the same arguments without the description
C16_DescriptionOnlyCustom ==
    (/\ Answered("story_create_license_terms")
     /\ IsSome(input)
     /\ Get(input).license_type # "custom"
     /\ Get(chain).outcome # "connect fails")
    => IF Built(BuildLicenseTerms(
                   CreateSchemaParse([request.params EXCEPT !.description = None]),
                   NoMatches))
       THEN licenseTerms =
              Some(BuildLicenseTerms(
                      CreateSchemaParse([request.params EXCEPT !.description = None]),
                      NoMatches))
       ELSE IsNone(licenseTerms)

\* commercial_use with "no commercial, free minting, 20% revenue share" and
\* no fee and share of its own registered terms with the default fee of 1
\* token and no share
C16_CommercialUseIgnoresText ==
    /\ Created("commercial_use")
    /\ request.params.description = Some(Phrases[1])
    /\ IsNone(request.params.minting_fee)
    /\ IsNone(request.params.commercial_rev_share)
    /\ ~response.isError
    /\ \E t \in RegisteredTerms :
            /\ t.defaultMintingFee = <<1>> \o Zeros(EtherDecimals)
            /\ t.commercialRevShare = 0
            /\ t.commercialUse

\* ------------------------------------------------------------------------
\* The fee amount of the description
\* ------------------------------------------------------------------------

\* the end of \d+(?:\.\d+)? from position p on, p - 1 when there is none
NumberEnd(s, p) ==
    IF /\ DigitRunEnd(s, p) >= p
       /\ DigitRunEnd(s, p) + 2 <= Len(s)
       /\ s[DigitRunEnd(s, p) + 1] = "."
       /\ IsDigit(s[DigitRunEnd(s, p) + 2])
    THEN DigitRunEnd(s, DigitRunEnd(s, p) + 2)
    ELSE DigitRunEnd(s, p)

\* the amount written at position i: $<number>, or <number> followed by
\* wip, dollar(s) or usd
AmountAt(s, i) ==
    IF i <= Len(s) /\ s[i] = "$" /\ NumberEnd(s, i + 1) >= i + 1
    THEN Some(SubSeq(s, i + 1, NumberEnd(s, i + 1)))
    ELSE FeeMatchAt(s, i)

\* the first amount written from position i on
RECURSIVE FirstAmountFrom(_, _)
FirstAmountFrom(s, i) ==
    IF i > Len(s) THEN None
    ELSE IF IsSome(AmountAt(s, i)) THEN AmountAt(s, i)
    ELSE FirstAmountFrom(s, i + 1)

\* the first amount of each description sent
AmountTable ==
    [description \in DescriptionArgs |->
        IF IsNone(description) THEN None
        ELSE FirstAmountFrom(toLowerCase(Get(description)), 1)]

\* C18: on the custom preset the first $<number> or <number>
\* wip|dollars|usd of the description is the minting fee of the terms
C18_FirstAmountIsFee ==
    (/\ Created("custom")
     /\ IsSome(licenseTerms)
     /\ IsSome(AmountTable[request.params.description]))
    => Get(licenseTerms).defaultMintingFee =
          ExactBaseUnits(parseFloat(Get(AmountTable[request.params.description])))

\* custom with "$500 upfront, 150% share" and no minting_fee registered
\* terms with the default fee of 1 token
C18_DollarWithoutUnitIgnored ==
    /\ Created("custom")
    /\ request.params.description = Some(Phrases[3])
    /\ IsNone(request.params.minting_fee)
    /\ feeMatch(toLowerCase(Phrases[3])) = None
    /\ ~response.isError
    /\ \E t \in RegisteredTerms : t.defaultMintingFee = <<1>> \o Zeros(EtherDecimals)

\* C19: after story_create_license_terms has run, the input object holds
\* the values it was called with
C19_InputUnchanged ==
    (Answered("story_create_license_terms") /\ IsSome(input)) =>
        Get(input) = CreateSchemaParse(request.params)

\* custom with "no commercial, free minting, 20% revenue share": the input
\* object was called with commercial_use true, minting_fee 1 and
\* commercial_rev_share 0 and holds false, 0 and 20 after the call
C19_DescriptionRewritesInput ==
    /\ Created("custom")
    /\ request.params.description = Some(Phrases[1])
    /\ IsNone(request.params.commercial_use)
    /\ IsNone(request.params.minting_fee)
    /\ IsNone(request.params.commercial_rev_share)
    /\ CreateSchemaParse(request.params).commercial_use
    /\ ~Get(input).commercial_use
    /\ IsZero(Get(input).minting_fee)
    /\ Get(input).commercial_rev_share = 20

\* ------------------------------------------------------------------------
\* Rejection of arguments
\* ------------------------------------------------------------------------

\* C17: a request with a revenue share outside 0..100 (as an argument or
\* written in the description of a custom license), a negative fee or an
\* amount below 1 is answered with the validation error and no external
\* call is made
C17_OutOfRangeRejectedFirst ==
    (/\ phase = "done"
     /\ \/ /\ request.tool = "story_create_license_terms"
           /\ \/ /\ IsSome(request.params.commercial_rev_share)
                 /\ Get(request.params.commercial_rev_share) \notin 0..100
              \/ /\ IsSome(request.params.minting_fee)
                 /\ Get(request.params.minting_fee).neg
                 /\ ~IsZero(Get(request.params.minting_fee))
              \/ /\ request.params.license_type = Some("custom")
                 /\ IsSome(MatchTable[request.params.description].percentMatch)
                 /\ parseInt(Get(MatchTable[request.params.description].percentMatch))
                        \notin 0..100
        \/ /\ request.tool = "story_mint_license"
           /\ \/ /\ IsSome(request.params.amount)
                 /\ Get(request.params.amount) < 1
              \/ /\ IsSome(request.params.max_revenue_share)
                 /\ Get(request.params.max_revenue_share) \notin 0..100
              \/ /\ IsSome(request.params.max_minting_fee)
                 /\ Get(request.params.max_minting_fee).neg
                 /\ ~IsZero(Get(request.params.max_minting_fee)))
    => /\ response = ErrorResponse(InvalidArguments)
       /\ calls = <<>>

\* custom with "$500 upfront, 150% share" and valid arguments otherwise:
\* the handler connected, handed a share of 150 to registerPILTerms and
\* returned its result
C17_ShareOf150ReachesChain ==
    /\ Created("custom")
    /\ request.params.description = Some(Phrases[3])
    /\ CreateSchemaValid(request.params)
    /\ Len(calls) = 3
    /\ calls[1].op = "connect"
    /\ calls[2].op = "registerPILTerms"
    /\ Get(calls[2].arg).commercialRevShare = 150
    /\ response # ErrorResponse(InvalidArguments)

\* ------------------------------------------------------------------------
\* connect and disconnect
\* ------------------------------------------------------------------------

\* C20: whenever a handler has run, connect is the first external call it
\* made and disconnect the last, and it made each of the two exactly once:
\* when it returned its result, when it returned early, when connect failed
\* and when it threw in between
C20_ConnectFirstDisconnectLast ==
    (phase = "done" /\ IsSome(input)) =>
        /\ Len(calls) >= 2
        /\ calls[1].op = "connect"
        /\ calls[Len(calls)].op = "disconnect"
        /\ Cardinality({i \in DOMAIN calls : calls[i].op = "connect"}) = 1
        /\ Cardinality({i \in DOMAIN calls : calls[i].op = "disconnect"}) = 1

\* story_approve_token with amount 1.5, not unlimited, and an allowance of
\* 2 tokens returned early: connect, the three reads, disconnect
C20_EarlyReturnDisconnects ==
    /\ Answered("story_approve_token")
    /\ request.params.amount = Some(Num(FALSE, <<1, 5>>, 1))
    /\ request.params.unlimited = Some(FALSE)
    /\ response = ResultResponse(ApproveNotNeeded)
    /\ Get(chain).currentAllowance = TwoEther
    /\ Len(calls) = 5
    /\ calls[1].op = "connect"
    /\ calls[5].op = "disconnect"
    /\ \A i \in 2..4 : calls[i].op = "readContract"

\* ------------------------------------------------------------------------
\* story_mint_license: the WIP balance
\* ------------------------------------------------------------------------

\* C23: when the per-token minting fee is positive and the WIP balance read
\* is below the total minting fee, story_mint_license answers with an error
\* and mintLicenseTokens is not called
C23_LowBalanceStopsMint ==
    (/\ Answered("story_mint_license")
     /\ IsSome(chain)
     /\ BigLess(BigZero, Get(chain).mintingFee)
     /\ IsSome(Get(chain).wipBalance)
     /\ BigLess(Get(Get(chain).wipBalance),
                TotalMintingFee(Get(chain).mintingFee, Get(input).amount)))
    => /\ response.isError
       /\ MintRequests = {}

\* with a per-token fee of 2 WIP and a balance of 0 the handler called
\* mintLicenseTokens and returned its result
C23_MintedWithZeroBalance ==
    /\ Answered("story_mint_license")
    /\ IsSome(chain)
    /\ Get(chain).outcome = "ok"
    /\ Get(chain).mintingFee = TwoEther
    /\ Get(chain).wipBalance = Some(BigZero)
    /\ \E i \in DOMAIN calls : calls[i] = Call("readContract", Some("balanceOf"))
    /\ MintRequests # {}
    /\ ~response.isError

\* ------------------------------------------------------------------------
\* story_register_ip: the flags of the license
\* ------------------------------------------------------------------------

\* C24: the terms story_register_ip hands to
\* mintAndRegisterIpAssetWithPilTerms have commercialUse =
\* input.commercial_use and derivativesAllowed = input.derivatives_allowed,
\* the values license_info reports
C24_RegisterHonoursFlags ==
    (Answered("story_register_ip") /\ IsSome(input)) =>
        /\ \A t \in Submitted({"mintAndRegisterIpAssetWithPilTerms"}) :
              /\ t.commercialUse = Get(input).commercial_use
              /\ t.derivativesAllowed = Get(input).derivatives_allowed
        /\ ~response.isError =>
              /\ Get(response.result).license_info.commercial_use
                    = Get(input).commercial_use
              /\ Get(response.result).license_info.derivatives_allowed
                    = Get(input).derivatives_allowed

\* story_register_ip with commercial_use false and derivatives_allowed
\* false registered terms with both true and reported both false
C24_RegisteredCommercialAnyway ==
    /\ Answered("story_register_ip")
    /\ request.params.commercial_use = Some(FALSE)
    /\ request.params.derivatives_allowed = Some(FALSE)
    /\ ~response.isError
    /\ \E t \in Submitted({"mintAndRegisterIpAssetWithPilTerms"}) :
            t.commercialUse /\ t.derivativesAllowed
    /\ ~Get(response.result).license_info.commercial_use
    /\ ~Get(response.result).license_info.derivatives_allowed

\* ------------------------------------------------------------------------
\* story_create_license_terms: the fee reported
\* ------------------------------------------------------------------------

\* C25: the minting_fee in the terms_details of a successful
\* story_create_license_terms response is "<f> WIP" for a number f of whole
\* tokens whose base units are the defaultMintingFee of the terms
\* registered
C25_ReportedFeeIsRegisteredFee ==
    (Answered("story_create_license_terms") /\ ~response.isError) =>
        \A t \in RegisteredTerms :
            \E f \in {Get(input).minting_fee, NumZero, NatNum(1)} :
                /\ Get(response.result).terms_details.minting_fee = FeeText(f)
                /\ ExactBaseUnits(f) = t.defaultMintingFee

\* non_commercial without a minting_fee registered terms with a fee of 0
\* and reported "1 WIP"
C25_NonCommercialReportsOneWip ==
    /\ Created("non_commercial")
    /\ IsNone(request.params.minting_fee)
    /\ ~response.isError
    /\ RegisteredTerms # {}
    /\ \A t \in RegisteredTerms : t.defaultMintingFee = BigZero
    /\ Get(response.result).terms_details.minting_fee = <<"1", " ", "W", "I", "P">>

\* ------------------------------------------------------------------------
\* The tool wrapper
\* ------------------------------------------------------------------------

\* C26: every invocation is answered with exactly one of the two responses:
\* the serialised result of the handler, or isError with the message of the
\* error
C26_ResultOrErrorResponse ==
    phase = "done" =>
        /\ response # None
        /\ \/ /\ response.isError
              /\ response.error # ""
              /\ IsNone(response.result)
           \/ /\ ~response.isError
              /\ response.error = ""
              /\ IsSome(response.result)
        /\ (IsSome(input) /\ calls[Len(calls)].op = "disconnect")
              => (response.isError <=> response.result = None)

\* story_register_ip threw 'Invalid URL format' after connect: the wrapper
\* answered isError with the message of the handler
C26_ThrownErrorAnswered ==
    /\ Answered("story_register_ip")
    /\ request.params.content_url = Some("not a url")
    /\ calls = <<Call("connect", None), Call("disconnect", None)>>
    /\ response = [isError |-> TRUE, error |-> RegisterFailed, result |-> None]

\* ------------------------------------------------------------------------
\* story_send_eth: the balance
\* ------------------------------------------------------------------------

\* C28: story_send_eth calls sendTransaction only with a balance read of at
\* least amount + gasEstimate * gasPrice and a gas estimation that
\* succeeded; when the estimation fails or the balance read is below that
\* sum the answer is an error and sendTransaction is not called
C28_SendOnlyWhenCovered ==
    (Answered("story_send_eth") /\ IsSome(input)) =>
        /\ Submitted({"sendTransaction"}) # {} =>
              /\ ~BigLess(Get(chain).balance,
                          BigAdd(ExactBaseUnits(Get(input).amount),
                                 BigMul(Get(chain).gasEstimate, Get(chain).gasPrice)))
              /\ Get(chain).outcome \notin {"connect fails", "balance fails",
                                            "estimate fails", "price fails"}
              /\ \A tx \in Submitted({"sendTransaction"}) :
                    /\ tx.value = ExactBaseUnits(Get(input).amount)
                    /\ tx.gas = Get(chain).gasEstimate
        /\ (\/ Get(chain).outcome = "estimate fails"
            \/ /\ Get(chain).outcome \notin {"connect fails", "balance fails"}
               /\ BigLess(Get(chain).balance,
                          BigAdd(ExactBaseUnits(Get(input).amount),
                                 BigMul(Get(chain).gasEstimate, Get(chain).gasPrice))))
           => /\ response.isError
              /\ Submitted({"sendTransaction"}) = {}

\* amount 1.5 with a balance of exactly 1.5 ETH and a gas price of 1 wei:
\* the balance covers the amount and not the gas; getGasPrice was the last
\* call and the answer is the error
C28_GasNotCovered ==
    /\ Answered("story_send_eth")
    /\ IsSome(input)
    /\ Get(input).amount = Num(FALSE, <<1, 5>>, 1)
    /\ Get(chain).outcome = "ok"
    /\ Get(chain).balance = OneAndHalfEther
    /\ Get(chain).gasPrice = 1
    /\ Len(calls) = 5
    /\ calls[4].op = "getGasPrice"
    /\ response = ErrorResponse(SendEthInsufficientForGas)

\* ------------------------------------------------------------------------
\* story_send_token and story_approve_token: the writes
\* ------------------------------------------------------------------------

\* C21: in story_send_token and story_approve_token simulateContract,
\* writeContract and waitForTransactionReceipt are each issued at most
\* once; writeContract directly follows a simulateContract that succeeded
\* and carries the request simulated, waitForTransactionReceipt directly
\* follows a writeContract that succeeded; a step that fails is the last
\* before disconnect and the answer is an error
C21_WriteProtocolOrdered ==
    (/\ Answered("story_send_token") \/ Answered("story_approve_token")
     /\ IsSome(input))
    => /\ \A op \in {"simulateContract", "writeContract",
                     "waitForTransactionReceipt"} :
              Cardinality({i \in DOMAIN calls : calls[i].op = op}) <= 1
       /\ \A i \in DOMAIN calls :
              /\ calls[i].op = "writeContract" =>
                    /\ i > 1
                    /\ calls[i - 1].op = "simulateContract"
                    /\ calls[i].arg = calls[i - 1].arg
                    /\ Get(chain).outcome # "simulate fails"
              /\ calls[i].op = "waitForTransactionReceipt" =>
                    /\ i > 1
                    /\ calls[i - 1].op = "writeContract"
                    /\ Get(chain).outcome # "write fails"
              /\ \/ calls[i].op = "simulateContract"
                    /\ Get(chain).outcome = "simulate fails"
                 \/ calls[i].op = "writeContract"
                    /\ Get(chain).outcome = "write fails"
                 \/ calls[i].op = "waitForTransactionReceipt"
                    /\ Get(chain).outcome = "wait fails"
                 => /\ response.isError
                    /\ i + 1 = Len(calls)
                    /\ calls[i + 1].op = "disconnect"

\* story_send_token whose writeContract failed: simulateContract and
\* writeContract were issued once each with the same request, then
\* disconnect
C21_WriteFailedOnce ==
    /\ Answered("story_send_token")
    /\ IsSome(input)
    /\ Get(chain).outcome = "write fails"
    /\ Len(calls) = 7
    /\ calls[5].op = "simulateContract"
    /\ calls[6] = Call("writeContract", calls[5].arg)
    /\ calls[7].op = "disconnect"
    /\ response = ErrorResponse(SendTokenFailed)

\* ------------------------------------------------------------------------
\* story_send_token: the concurrent reads
\* ------------------------------------------------------------------------

\* C22 as stated: in whichever order the three reads complete,
\* story_send_token makes the same calls and gives the same response, and
\* when a read fails neither simulateContract nor writeContract is issued
C22_SameResponseEveryOrder ==
    (Answered("story_send_token") /\ IsSome(input)) =>
        /\ \A order \in CompletionOrders :
              /\ SendTokenHandler(Get(input),
                                  [Get(chain) EXCEPT !.order = order]).calls = calls
              /\ SendTokenHandler(Get(input),
                                  [Get(chain) EXCEPT !.order = order]).response
                    = response
        /\ Get(chain).failed # {} =>
              Submitted({"simulateContract", "writeContract"}) = {}

\* C22: in whichever order the three reads complete, story_send_token makes
\* the same calls and either returns the same result or fails; the message
\* of the failure is the same too unless more than one read fails, when it
\* names one of the reads that failed; when a read fails neither
\* simulateContract nor writeContract is issued
C22_SameOutcomeUpToCause ==
    (Answered("story_send_token") /\ IsSome(input)) =>
        /\ \A order \in CompletionOrders :
              /\ SendTokenHandler(Get(input),
                                  [Get(chain) EXCEPT !.order = order]).calls = calls
              /\ SendTokenHandler(Get(input),
                                  [Get(chain) EXCEPT !.order = order]).response.isError
                    = response.isError
              /\ SendTokenHandler(Get(input),
                                  [Get(chain) EXCEPT !.order = order]).response.result
                    = response.result
              /\ Cardinality(Get(chain).failed) <= 1 =>
                    SendTokenHandler(Get(input),
                                     [Get(chain) EXCEPT !.order = order]).response
                        = response
        /\ Get(chain).failed # {} =>
              /\ response.isError
              /\ Submitted({"simulateContract", "writeContract"}) = {}
              /\ Len(calls) > 2 =>
                    response.error
                        \in {SendTokenReadFailed(read) : read \in Get(chain).failed}

\* balanceOf and symbol both failed and symbol completed first: the answer
\* names symbol, where it names balanceOf when the reads complete in the
\* order they were issued
C22_FirstRejectionNamed ==
    /\ Answered("story_send_token")
    /\ IsSome(input)
    /\ Get(chain).outcome = "ok"
    /\ Get(chain).failed = {"balanceOf", "symbol"}
    /\ Get(chain).order = <<"symbol", "decimals", "balanceOf">>
    /\ Len(calls) = 5
    /\ response = ErrorResponse(SendTokenReadFailed("symbol"))
    /\ SendTokenHandler(Get(input),
                        [Get(chain) EXCEPT !.order = TokenReads]).response
          = ErrorResponse(SendTokenReadFailed("balanceOf"))

\* ------------------------------------------------------------------------
\* story_send_token: the balance
\* ------------------------------------------------------------------------

\* C27: when the three reads of story_send_token were made and the balance
\* read is below the amount in base units, neither simulateContract nor
\* writeContract is issued and the answer is an error, the
\* insufficient-balance error when no read failed
C27_LowBalanceNoTransfer ==
    (/\ Answered("story_send_token")
     /\ IsSome(input)
     /\ Call("readContract", Some("balanceOf")) \in {calls[i] : i \in DOMAIN calls}
     /\ "balanceOf" \notin Get(chain).failed
     /\ BigLess(Get(chain).balance, ExactBaseUnits(Get(input).amount)))
    => /\ Submitted({"simulateContract", "writeContract"}) = {}
       /\ response.isError
       /\ Get(chain).failed = {} => response = ErrorResponse(SendTokenInsufficient)

\* amount 1.5 with a balance of 1 token: the three reads, then disconnect,
\* and the insufficient-balance error
C27_OneTokenForOneAndHalf ==
    /\ Answered("story_send_token")
    /\ IsSome(input)
    /\ Get(input).amount = Num(FALSE, <<1, 5>>, 1)
    /\ Get(chain).outcome = "ok"
    /\ Get(chain).failed = {}
    /\ Get(chain).balance = OneEther
    /\ Len(calls) = 5
    /\ calls[5].op = "disconnect"
    /\ response = ErrorResponse(SendTokenInsufficient)

\* ------------------------------------------------------------------------
\* story_approve_token: when the approval is sent
\* ------------------------------------------------------------------------

\* C29: when no external call fails, story_approve_token issues
\* writeContract unless unlimited is false, an amount is given and the
\* allowance read is at least that amount in base units, and only then;
\* with unlimited true or no amount the amount approved is maxUint256,
\* whatever the allowance read
C29_ApproveUnlessSufficient ==
    (/\ Answered("story_approve_token")
     /\ IsSome(input)
     /\ Get(chain).outcome = "ok")
    => /\ Submitted({"writeContract"}) # {}
            <=> ~(/\ ~Get(input).unlimited
                  /\ IsSome(Get(input).amount)
                  /\ ~BigLess(Get(chain).currentAllowance,
                              ExactBaseUnits(Get(Get(input).amount))))
       /\ (Get(input).unlimited \/ IsNone(Get(input).amount))
            => Submitted({"writeContract"}) = {maxUint256}
       /\ (~Get(input).unlimited /\ IsSome(Get(input).amount))
            => Submitted({"writeContract"})
                  \subseteq {ExactBaseUnits(Get(Get(input).amount))}

\* amount 0.0000001, not unlimited, and an allowance of 0: no external call
\* failed, connect was the only call before disconnect and the answer is an
\* error
C29_SmallAmountNotApproved ==
    /\ Answered("story_approve_token")
    /\ IsSome(input)
    /\ Get(input).amount = Some(Num(FALSE, <<1>>, -6))
    /\ ~Get(input).unlimited
    /\ Get(chain).outcome = "ok"
    /\ Get(chain).currentAllowance = BigZero
    /\ calls = <<Call("connect", None), Call("disconnect", None)>>
    /\ response = ErrorResponse(ApproveFailed)

\* ------------------------------------------------------------------------
\* story_get_transaction_history: the bounds of the search
\* ------------------------------------------------------------------------

\* C30: story_get_transaction_history fetches at most min(5 * limit, 1000)
\* blocks; when connect and getBlockNumber succeed it returns a result,
\* whichever blocks and receipts cannot be fetched; the result has at most
\* limit transactions, each with the target as sender or recipient, in
\* descending order of block number
C30_BoundedSearch ==
    (Answered("story_get_transaction_history") /\ IsSome(input)) =>
        /\ 2 * Cardinality({i \in DOMAIN calls : calls[i].op = "getBlock"})
              <= BlocksToCheckHalves(Get(input).limit)
        /\ Get(chain).outcome = "ok" => ~response.isError
        /\ ~response.isError =>
              /\ 2 * Len(Get(response.result).transactions) <= Get(input).limit
              /\ \A k \in DOMAIN Get(response.result).transactions :
                    InvolvesTarget(Get(response.result).transactions[k],
                                   TargetAddress(Get(input)))
              /\ \A k, l \in DOMAIN Get(response.result).transactions :
                    k < l =>
                        parseInt(Get(response.result).transactions[k].block_number)
                          >= parseInt(Get(response.result).transactions[l].block_number)

\* limit 1.5: the handler fetched the receipts of two transactions of the
\* latest block and returned both
C30_TwoForLimitOneAndHalf ==
    /\ Answered("story_get_transaction_history")
    /\ IsSome(input)
    /\ Get(input).limit = 3
    /\ ~response.isError
    /\ Len(Get(response.result).transactions) = 2
    /\ Cardinality({i \in DOMAIN calls : calls[i].op = "getTransactionReceipt"}) = 2
    /\ Get(response.result).transactions[2].status = "unknown"

====
